---- MODULE Spec2Model ----
(***************************************************************************)
(* A model of the per-variant genotyping engine of LRcaller (src/algo.hpp):*)
(* the Read Selector (parseReads), the CIGAR Examiner                      *)
(* (examineBamAlignment), the Preference Scorer and Genotype Aggregator    *)
(* (multiUpdateVC, getGtString) and the Allele Window Builder              *)
(* (getLocRefAlt) as driven by processChunk.                               *)
(*                                                                         *)
(* Each component has a specification of its own over the shared           *)
(* variables: Spec (parseReads), SpecExamine (examineBamAlignment),        *)
(* SpecVC (multiUpdateVC + getGtString), SpecChunk (processChunk +         *)
(* getLocRefAlt).                                                          *)
(***************************************************************************)
EXTENDS Integers, Sequences, FiniteSets, TLC

VARIABLES
    \* inputs shared by the components
    var,              \* the seqan::VcfRecord under work
    O,                \* the LRCOptions in force
    wSizeActual,      \* the effective half-window W
    \* parseReads
    pc,               \* position of the running function
    nRead,            \* number of records of bars the loop has taken
    lastBegin,        \* beginPos of the last record taken (bars is position-sorted);
                      \* once the loop has stopped, of the record it stopped at
    overlappingBars,  \* candidate list: "pointers" (index in bars + the record)
    align_infos,      \* the parallel list of varAlignInfo
    nameCache,        \* qname -> slot (0-based), or NoSlot
    admitted,         \* history: the records admitted so far, in order (index in
                      \* bars and query name)
    firstSlot,        \* history: qname -> slot the first admitted record took
    \* examineBamAlignment
    exRead,           \* the seqan::BamAlignmentRecord examined
    exVai,            \* the varAlignInfo written (<<>> before the call)
    exPc,             \* "call" before examineBamAlignment ran, "done" after
    \* multiUpdateVC and getGtString, as processChunk calls them for one variant
    vais,             \* alignInfos: the varAlignInfo of the candidate reads
    vC,               \* per model row: genotype penalties, in units of 1/(2*logScaleFactor)
    AD,               \* per model row: allele depth counts (last slot: total)
    VA,               \* per model row: variant alignment counts (last slot: total)
    VA_QNAMES,        \* per allele: the query names appended (shared by all rows)
    mI,               \* 0-based index of the model row under work
    vcI,              \* number of reads the running multiUpdateVC call has processed
    vcPc,             \* "update", "emit" or "done"
    genotypeInfos,    \* var.genotypeInfos[0]: the result string last stored (<<>>: none)
    lastPrefs,        \* history: the prefs vector of the read processed last, before
                      \* normalisation, in units of 1/logScaleFactor
    \* processChunk
    faiI,             \* the seqan::FaiIndex: the contig names, in index order
    chrom,            \* the contig of the chunk
    vcfRecords,       \* the variants of the chunk (var runs over them)
    bars,             \* the reads fetched for the chunk
    genome,           \* [begin, end]: the interval the reads are fetched for
    chI,              \* number of variants processChunk has finished
    chPc,             \* "fetch", "parse", "process", "genotype" or "done"
    regionCalls,      \* history: per variant, the readRegion calls of getLocRefAlt
    nAligned,         \* history: per variant, the number of reads aligned
    \* one function of algo.hpp called on its own
    callArgs,         \* the arguments of the call
    callRes,          \* what the call returned or wrote (<<>> before it ran)
    callPc            \* "call" before the function ran, "done" after

prVars == <<pc, nRead, lastBegin, overlappingBars, align_infos, nameCache,
            admitted, firstSlot>>
inVars == <<var, O, wSizeActual>>
exVars == <<exRead, exVai, exPc>>
vcVars == <<vais, vC, AD, VA, VA_QNAMES, mI, vcI, vcPc, genotypeInfos, lastPrefs>>
chVars == <<faiI, chrom, vcfRecords, bars, genome, chI, chPc, regionCalls, nAligned>>
fnVars == <<callArgs, callRes, callPc>>
vars == <<inVars, prVars, exVars, vcVars, chVars, fnVars>>
\* what parseReads leaves alone
notPr == <<exVars, vcVars, chVars, fnVars>>
\* what examineBamAlignment leaves alone
notEx == <<prVars, vcVars, chVars, fnVars>>
\* what multiUpdateVC and getGtString leave alone
notVc == <<prVars, exVars, chVars, fnVars>>

----------------------------------------------------------------------------
(* Bounds of the model *)

MaxBars == 3          \* records in bars
MaxPos == 5           \* largest read begin position
VarBegin == 3         \* var.beginPos
VarRefLen == 1        \* length(var.ref)
WSize == 1            \* wSizeActual
VarWindow == 1        \* O.varWindow
MinDelIns == 2        \* O.minDelIns
MaxSoftClipped == 1   \* O.maxSoftClipped
MaxBARcount == 2      \* O.maxBARcount
MinMapQ == 1          \* O.minMapQ

(* Program constants *)
NO_ALIGNMENT == -10000

NoSlot == -1

----------------------------------------------------------------------------
(* Helpers *)

Max(a, b) == IF a > b THEN a ELSE b
Min(a, b) == IF a < b THEN a ELSE b

Op(o, n) == [operation |-> o, count |-> n]

RECURSIVE SumCounts(_, _)
\* sum of the counts of the ops of cigar whose operation is in ops
SumCounts(cigar, ops) ==
    IF cigar = <<>> THEN 0
    ELSE (IF Head(cigar).operation \in ops THEN Head(cigar).count ELSE 0)
         + SumCounts(Tail(cigar), ops)

\* length(record.seq): the read-consuming ops of the CIGAR
SeqLength(record) == SumCounts(record.cigar, {"M", "=", "X", "I", "S"})

\* seqan::getAlignmentLengthInRef
getAlignmentLengthInRef(record) == SumCounts(record.cigar, {"M", "=", "X", "D"})

----------------------------------------------------------------------------
(* examineBamAlignment *)

\* varAlignInfo::reset on a varAlignInfo of nAlleles alleles
ResetVai(nAlleles) ==
    [qname |-> "", nD |-> 0, nI |-> 0,
     alignS |-> [i \in 1..nAlleles |-> NO_ALIGNMENT],
     softClipped |-> FALSE, alignsLeft |-> FALSE, alignsRight |-> FALSE]

\* an info hint is <<>> (absent or ".") or <<value>>
HintMin(cur, hint, w) ==
    IF hint # <<>> /\ hint[1] - w < cur THEN hint[1] - w ELSE cur
HintMax(cur, hint, w) ==
    IF hint # <<>> /\ hint[1] + w > cur THEN hint[1] + w ELSE cur

RegionBeg(v, opt) ==
    HintMin(HintMin(v.beginPos - opt.varWindow, v.info.TRRBEGIN, opt.varWindow),
            v.info.REGBEGIN, opt.varWindow)

RegionEnd(v, opt) ==
    HintMax(HintMax(v.beginPos + v.refLen + opt.varWindow, v.info.TRREND, opt.varWindow),
            v.info.REGEND, opt.varWindow)

RECURSIVE SkipToRegion(_, _, _, _, _)
\* the first loop: find the first position that overlaps the region
SkipToRegion(cigar, regionBeg, alignPos, cigarI, cigarOperation) ==
    IF alignPos < regionBeg /\ cigarI < Len(cigar)
    THEN LET c == cigar[cigarI + 1]
         IN  SkipToRegion(cigar, regionBeg,
                          IF c.operation \in {"M", "=", "D", "X"}
                          THEN alignPos + c.count ELSE alignPos,
                          cigarI + 1, c.operation)
    ELSE [alignPos |-> alignPos, cigarI |-> cigarI, cigarOperation |-> cigarOperation]

\* the D op that carried alignPos into the region starts nD at its overshoot
OvershootD(st, regionBeg, opt) ==
    IF st.alignPos > regionBeg /\ st.cigarOperation = "D"
       /\ st.alignPos - regionBeg >= opt.minDelIns
    THEN st.alignPos - regionBeg
    ELSE 0

SoftClipFlagAnyEnd(cigar, cigarI, opt) ==
    /\ cigar[cigarI + 1].operation = "S"
    /\ cigar[cigarI + 1].count > opt.maxSoftClipped
    /\ cigarI = Len(cigar) - 1 \/ cigarI = 0

\* whether the S op at 0-based index cigarI sets softClipped
SoftClipFlag(cigar, cigarI, opt) ==
    /\ cigar[cigarI + 1].operation = "S"
    /\ cigar[cigarI + 1].count > opt.maxSoftClipped
    /\ IF ~opt.genotypeRightBreakpoint
       THEN cigarI = Len(cigar) - 1
       ELSE cigarI = 0

\* the guard of the second loop
WalkGuard(alignPos, regionEnd) == alignPos < regionEnd

RECURSIVE WalkRegion(_, _, _, _)
\* the second loop: walk the ops inside the region
WalkRegion(cigar, regionEnd, opt, st) ==
    IF WalkGuard(st.alignPos, regionEnd) /\ st.cigarI < Len(cigar)
    THEN LET c  == cigar[st.cigarI + 1]
             op == c.operation
         IN  WalkRegion(cigar, regionEnd, opt,
                 [alignPos |-> IF op \in {"D", "=", "X", "M"}
                               THEN st.alignPos + c.count ELSE st.alignPos,
                  cigarI |-> st.cigarI + 1,
                  nD |-> IF op = "D" /\ c.count >= opt.minDelIns
                         THEN st.nD + c.count ELSE st.nD,
                  nI |-> IF op = "I" /\ c.count >= opt.minDelIns
                         THEN st.nI + c.count ELSE st.nI,
                  softClipped |-> st.softClipped \/ SoftClipFlag(cigar, st.cigarI, opt)])
    ELSE st

examineBamAlignment(bar, v, opt) ==
    LET regionBeg == RegionBeg(v, opt)
        regionEnd == RegionEnd(v, opt)
        s1 == SkipToRegion(bar.cigar, regionBeg, bar.beginPos, 0,
                           bar.cigar[1].operation)
        s2 == WalkRegion(bar.cigar, regionEnd, opt,
                         [alignPos |-> s1.alignPos, cigarI |-> s1.cigarI,
                          nD |-> OvershootD(s1, regionBeg, opt), nI |-> 0,
                          softClipped |-> FALSE])
    IN  [ResetVai(v.nAlts + 1) EXCEPT
            !.qname = bar.qName,
            !.alignsLeft = (bar.beginPos < regionBeg),
            !.nD = s2.nD,
            !.nI = s2.nI,
            !.softClipped = s2.softClipped,
            !.alignsRight = (s2.alignPos > regionEnd)]

----------------------------------------------------------------------------
(* parseReads *)

\* int32_t beg, end: the selection window, shifted by length(var.ref) in
\* right-breakpoint mode
SelBeg(v, W, opt) ==
    v.beginPos - W + (IF opt.genotypeRightBreakpoint THEN v.refLen ELSE 0)
SelEnd(v, W, opt) ==
    v.beginPos + W + (IF opt.genotypeRightBreakpoint THEN v.refLen ELSE 0)

StopReadingAtEnd(v, W, opt) == SelEnd(v, W, opt)

\* int32_t stopReading = beg; if (O.genotypeRightBreakpoint) stopReading = end;
StopReading(v, W, opt) ==
    IF opt.genotypeRightBreakpoint THEN SelEnd(v, W, opt) ELSE SelBeg(v, W, opt)

\* the return at the head of the loop body
ReturnCond(size, record, v, W, opt) ==
    \/ size >= opt.maxBARcount
    \/ record.beginPos > StopReading(v, W, opt)

\* the continue: the read does not stretch to the window, or maps poorly
SkipCond(record, v, W, opt) ==
    \/ record.beginPos + SeqLength(record) < SelBeg(v, W, opt)
    \/ record.beginPos + getAlignmentLengthInRef(record) < SelBeg(v, W, opt)
    \/ record.mapQ < opt.minMapQ

\* the break after the examiner ran
BreakCond(record, v, W, opt) == record.beginPos >= SelEnd(v, W, opt)

LongSoftClip(c, opt) == c.operation = "S" /\ c.count > opt.maxSoftClipped

SoftClipRemoveSameEnd(record, opt) ==
    IF ~opt.genotypeRightBreakpoint
    THEN LongSoftClip(record.cigar[Len(record.cigar)], opt)
    ELSE LongSoftClip(record.cigar[1], opt)

\* softClipRemove: first op in left-breakpoint mode, last op in
\* right-breakpoint mode
SoftClipRemove(record, opt) ==
    IF ~opt.genotypeRightBreakpoint
    THEN LongSoftClip(record.cigar[1], opt)
    ELSE LongSoftClip(record.cigar[Len(record.cigar)], opt)

HardClipped(record) ==
    \/ record.cigar[1].operation = "H"
    \/ record.cigar[Len(record.cigar)].operation = "H"

hasFlagDuplicate(record) == "DUPLICATE" \in record.flags
hasFlagQCNoPass(record) == "QC_NO_PASS" \in record.flags

\* the condition under which a record enters the candidate list
AdmitCond(record, opt) ==
    /\ ~SoftClipRemove(record, opt)
    /\ ~hasFlagDuplicate(record)
    /\ ~hasFlagQCNoPass(record)
    /\ ~HardClipped(record)

NameCacheNeverContains(cache, id) == FALSE

\* nameCache.contains(id)
NameCacheContains(cache, id) == cache[id] # NoSlot

ReplaceInfoStale(infos, index, vai) == infos

\* align_infos[index] = vai   (index is 0-based)
ReplaceInfo(infos, index, vai) == [infos EXCEPT ![index + 1] = vai]

\* overlappingBars[index] = &record
ReplaceBar(list, index, ptr) == [list EXCEPT ![index + 1] = ptr]

(* The inputs of this specification *)
Names == {"r1", "r2"}

Cigars ==
    { <<Op("M", WSize + 3)>>,
      <<Op("M", 1)>>,
      <<Op("S", MaxSoftClipped + 1), Op("M", WSize + 3)>>,
      <<Op("M", WSize + 1), Op("S", MaxSoftClipped + 1)>>,
      <<Op("S", MaxSoftClipped), Op("M", WSize + 2), Op("S", MaxSoftClipped)>>,
      <<Op("H", 1), Op("M", WSize + 3)>>,
      <<Op("M", WSize), Op("D", MinDelIns), Op("M", 1), Op("I", MinDelIns), Op("M", 1)>> }

\* reads of every CIGAR shape, and flagged or poorly mapped reads of the plain
\* shape
Records ==
    [qName : Names, beginPos : 0..MaxPos, mapQ : {MinMapQ}, flags : {{}},
     cigar : Cigars]
    \cup
    [qName : Names, beginPos : 0..MaxPos, mapQ : {MinMapQ},
     flags : {{"DUPLICATE"}, {"QC_NO_PASS"}}, cigar : {<<Op("M", WSize + 3)>>}]
    \cup
    [qName : {"r1"}, beginPos : 0..MaxPos, mapQ : {MinMapQ - 1}, flags : {{}},
     cigar : {<<Op("M", WSize + 3)>>}]

NoInfo == [TRRBEGIN |-> <<>>, TRREND |-> <<>>, REGBEGIN |-> <<>>, REGEND |-> <<>>]

\* the variables of processChunk's specification, when unused
ChIdle ==
    /\ faiI = <<>> /\ chrom = "" /\ vcfRecords = <<>> /\ bars = <<>>
    /\ genome = <<>> /\ chI = 0 /\ chPc = "idle"
    /\ regionCalls = <<>> /\ nAligned = <<>>

\* the variables of a single function call, when unused
FnIdle == callArgs = <<>> /\ callRes = <<>> /\ callPc = "idle"

\* the variables of examineBamAlignment's specification, when unused
ExIdle == exRead = <<>> /\ exVai = <<>> /\ exPc = "idle"

\* the variables of the genotyping specification, when unused
VcIdle ==
    /\ vais = <<>> /\ vC = <<>> /\ AD = <<>> /\ VA = <<>> /\ VA_QNAMES = <<>>
    /\ mI = 0 /\ vcI = 0 /\ vcPc = "idle" /\ genotypeInfos = <<>> /\ lastPrefs = <<>>

Init ==
    /\ var = [beginPos |-> VarBegin, refLen |-> VarRefLen, nAlts |-> 1, info |-> NoInfo]
    /\ \E right \in BOOLEAN :
          O = [genotypeRightBreakpoint |-> right, varWindow |-> VarWindow,
               minDelIns |-> MinDelIns, maxSoftClipped |-> MaxSoftClipped,
               maxBARcount |-> MaxBARcount, minMapQ |-> MinMapQ]
    /\ wSizeActual = WSize
    /\ pc = "loop"
    /\ nRead = 0
    /\ lastBegin = 0
    /\ overlappingBars = <<>>
    /\ align_infos = <<>>
    /\ nameCache = [n \in Names |-> NoSlot]
    /\ admitted = <<>>
    /\ firstSlot = [n \in Names |-> NoSlot]
    /\ ExIdle
    /\ VcIdle
    /\ ChIdle
    /\ FnIdle

\* the next record of bars: bars is sorted by begin position
NextRecord(record) ==
    /\ pc = "loop"
    /\ nRead < MaxBars
    /\ record.beginPos >= lastBegin

Take(record) ==
    /\ nRead' = nRead + 1
    /\ lastBegin' = record.beginPos

\* every record of bars has been taken: the loop ends
Exhausted ==
    /\ pc = "loop"
    /\ pc' = "exhausted"
    /\ UNCHANGED <<notPr, inVars, nRead, lastBegin, overlappingBars, align_infos, nameCache,
                   admitted, firstSlot>>

Return ==
    \E record \in Records :
        /\ NextRecord(record)
        /\ ReturnCond(Len(overlappingBars), record, var, wSizeActual, O)
        /\ Take(record)
        /\ pc' = "returned"
        /\ UNCHANGED <<notPr, inVars, overlappingBars, align_infos, nameCache, admitted,
                       firstSlot>>

Skip ==
    \E record \in Records :
        /\ NextRecord(record)
        /\ ~ReturnCond(Len(overlappingBars), record, var, wSizeActual, O)
        /\ SkipCond(record, var, wSizeActual, O)
        /\ Take(record)
        /\ UNCHANGED <<notPr, inVars, pc, overlappingBars, align_infos, nameCache,
                       admitted, firstSlot>>

Break ==
    \E record \in Records :
        /\ NextRecord(record)
        /\ ~ReturnCond(Len(overlappingBars), record, var, wSizeActual, O)
        /\ ~SkipCond(record, var, wSizeActual, O)
        /\ BreakCond(record, var, wSizeActual, O)
        /\ Take(record)
        /\ pc' = "broke"
        /\ UNCHANGED <<notPr, inVars, overlappingBars, align_infos, nameCache, admitted,
                       firstSlot>>

\* the record reaches the end of the loop body
Examined(record) ==
    /\ NextRecord(record)
    /\ ~ReturnCond(Len(overlappingBars), record, var, wSizeActual, O)
    /\ ~SkipCond(record, var, wSizeActual, O)
    /\ ~BreakCond(record, var, wSizeActual, O)

Reject ==
    \E record \in Records :
        /\ Examined(record)
        /\ ~AdmitCond(record, O)
        /\ Take(record)
        /\ UNCHANGED <<notPr, inVars, pc, overlappingBars, align_infos, nameCache,
                       admitted, firstSlot>>

Replace ==
    \E record \in Records :
        /\ Examined(record)
        /\ AdmitCond(record, O)
        /\ NameCacheContains(nameCache, record.qName)
        /\ LET index == nameCache[record.qName]
               vai   == examineBamAlignment(record, var, O)
           IN  /\ overlappingBars' =
                      ReplaceBar(overlappingBars, index,
                                 [ptr |-> nRead + 1, rec |-> record])
               /\ align_infos' = ReplaceInfo(align_infos, index, vai)
        /\ Take(record)
        /\ admitted' = Append(admitted, [ptr |-> nRead + 1, qName |-> record.qName])
        /\ UNCHANGED <<notPr, inVars, pc, nameCache, firstSlot>>

Push ==
    \E record \in Records :
        /\ Examined(record)
        /\ AdmitCond(record, O)
        /\ ~NameCacheContains(nameCache, record.qName)
        /\ nameCache' = [nameCache EXCEPT ![record.qName] = Len(overlappingBars)]
        /\ overlappingBars' = Append(overlappingBars, [ptr |-> nRead + 1, rec |-> record])
        /\ align_infos' = Append(align_infos, examineBamAlignment(record, var, O))
        /\ Take(record)
        /\ admitted' = Append(admitted, [ptr |-> nRead + 1, qName |-> record.qName])
        /\ firstSlot' = [firstSlot EXCEPT ![record.qName] =
                            IF @ = NoSlot THEN Len(overlappingBars) ELSE @]
        /\ UNCHANGED <<notPr, inVars, pc>>

Next == Exhausted \/ Return \/ Skip \/ Break \/ Reject \/ Replace \/ Push

Spec == Init /\ [][Next]_vars

----------------------------------------------------------------------------
(* Properties of parseReads, checked under Spec *)

Stopped == pc \in {"returned", "broke"}

\* the index in bars of the last admitted record named n (0: none)
RECURSIVE LastAdmittedOf(_, _)
LastAdmittedOf(hist, n) ==
    IF hist = <<>> THEN 0
    ELSE IF hist[Len(hist)].qName = n THEN hist[Len(hist)].ptr
    ELSE LastAdmittedOf(SubSeq(hist, 1, Len(hist) - 1), n)

\* some query name was admitted twice
SomeDuplicateAdmitted ==
    \E i, j \in 1..Len(admitted) : i < j /\ admitted[i].qName = admitted[j].qName

\* C1: no two candidates share a query name, and for every query name that
\* the loop admitted (all filters passed at the end of the loop body) the
\* candidate list holds, in the slot the first admitted record of that name
\* took, the LAST admitted record of that name together with the
\* varAlignInfo the examiner computed for that record.
C1_DedupLastWins ==
    /\ \A i, j \in 1..Len(overlappingBars) :
          i # j => overlappingBars[i].rec.qName # overlappingBars[j].rec.qName
    /\ \A n \in Names :
          LastAdmittedOf(admitted, n) # 0 =>
             /\ firstSlot[n] # NoSlot
             /\ firstSlot[n] < Len(overlappingBars)
             /\ firstSlot[n] < Len(align_infos)
             /\ overlappingBars[firstSlot[n] + 1].ptr = LastAdmittedOf(admitted, n)
             /\ overlappingBars[firstSlot[n] + 1].rec.qName = n
             /\ align_infos[firstSlot[n] + 1] =
                   examineBamAlignment(overlappingBars[firstSlot[n] + 1].rec, var, O)

\* C1 witness: the first record was admitted, the second, of the same name,
\* replaced it in slot 0, and a third of another name was pushed after it
C1_Witness ==
    /\ SomeDuplicateAdmitted
    /\ Len(overlappingBars) = 2
    /\ overlappingBars[1].ptr = 2
    /\ overlappingBars[2].ptr = 3
    /\ pc = "exhausted"

\* C2: the candidate list and the varAlignInfo list have the same length,
\* never more than maxBARcount, and entry i of the second is the examiner's
\* output for read i of the first.
C2_ParallelLists ==
    /\ Len(overlappingBars) = Len(align_infos)
    /\ Len(overlappingBars) <= O.maxBARcount
    /\ \A i \in 1..Len(overlappingBars) :
          align_infos[i] = examineBamAlignment(overlappingBars[i].rec, var, O)

\* C2 witness: a slot was replaced in place by a record whose evidence
\* differs (an insertion counted), and the list is at its cap
C2_Witness ==
    /\ SomeDuplicateAdmitted
    /\ Len(overlappingBars) = O.maxBARcount
    /\ Len(align_infos) = O.maxBARcount
    /\ \E i \in 1..Len(align_infos) :
          /\ overlappingBars[i].ptr > i
          /\ align_infos[i].nI > 0

\* C3 as stated: the loop stops only at a read beginning at or after the END
\* of the selection window, or at the cap.
C3_StopsOnlyAtWindowEnd ==
    Stopped =>
        \/ lastBegin >= SelEnd(var, wSizeActual, O)
        \/ Len(overlappingBars) >= O.maxBARcount

\* C3 amended: the loop stops only at the cap, or at a read beginning after
\* stopReading, which is the START of the window (B - W) in left-breakpoint
\* mode and its end (B + W + refLen) in right-breakpoint mode, or at a read
\* beginning at or after the end of the window; so in left-breakpoint mode
\* every candidate begins at or before B - W, and in right-breakpoint mode
\* before B + W + refLen.
C3_StopsAtStopReading ==
    /\ pc = "returned" =>
          \/ Len(overlappingBars) >= O.maxBARcount
          \/ /\ ~O.genotypeRightBreakpoint
             /\ lastBegin > var.beginPos - wSizeActual
          \/ /\ O.genotypeRightBreakpoint
             /\ lastBegin > var.beginPos + wSizeActual + var.refLen
    /\ pc = "broke" =>
          lastBegin >= var.beginPos + wSizeActual
                       + (IF O.genotypeRightBreakpoint THEN var.refLen ELSE 0)
    /\ \A i \in 1..Len(overlappingBars) :
          IF O.genotypeRightBreakpoint
          THEN overlappingBars[i].rec.beginPos < var.beginPos + wSizeActual + var.refLen
          ELSE overlappingBars[i].rec.beginPos <= var.beginPos - wSizeActual

\* C3 witness: in left-breakpoint mode the loop returned, below the cap, at a
\* read that begins strictly inside (B - W, B + W)
C3_Witness ==
    /\ ~O.genotypeRightBreakpoint
    /\ pc = "returned"
    /\ Len(overlappingBars) < O.maxBARcount
    /\ lastBegin > var.beginPos - wSizeActual
    /\ lastBegin < var.beginPos + wSizeActual

\* the terminal op the examiner looks at for softClipped
ExaminerTerminalOp(record, opt) ==
    IF ~opt.genotypeRightBreakpoint
    THEN record.cigar[Len(record.cigar)]
    ELSE record.cigar[1]

\* the terminal op at the other end of the read
OppositeTerminalOp(record, opt) ==
    IF ~opt.genotypeRightBreakpoint
    THEN record.cigar[1]
    ELSE record.cigar[Len(record.cigar)]

\* C4 as stated: no candidate has a soft clip longer than maxSoftClipped at
\* the end the examiner uses for softClipped (last op in left-breakpoint
\* mode, first op in right-breakpoint mode).
C4_NoLongClipAtExaminerEnd ==
    \A i \in 1..Len(overlappingBars) :
        LET c == ExaminerTerminalOp(overlappingBars[i].rec, O)
        IN  ~(c.operation = "S" /\ c.count > O.maxSoftClipped)

\* C4 amended: no candidate has a soft clip longer than maxSoftClipped at the
\* end OPPOSITE to the examiner's: the first op in left-breakpoint mode, the
\* last op in right-breakpoint mode.
C4_NoLongClipAtOppositeEnd ==
    \A i \in 1..Len(overlappingBars) :
        LET c == OppositeTerminalOp(overlappingBars[i].rec, O)
        IN  ~(c.operation = "S" /\ c.count > O.maxSoftClipped)

\* C4 witness: a candidate whose examiner-side terminal soft clip is longer
\* than maxSoftClipped (the examiner flagged it softClipped)
C4_Witness ==
    \E i \in 1..Len(overlappingBars) :
        /\ align_infos[i].softClipped
        /\ ExaminerTerminalOp(overlappingBars[i].rec, O).operation = "S"
        /\ ExaminerTerminalOp(overlappingBars[i].rec, O).count > O.maxSoftClipped

----------------------------------------------------------------------------
(* examineBamAlignment on any read: SpecExamine *)

ExMaxOps == 3         \* CIGAR ops per read
ExMaxPos == 5         \* largest read begin position

\* the variables of parseReads' specification, when unused
PrIdle ==
    /\ pc = "idle" /\ nRead = 0 /\ lastBegin = 0
    /\ overlappingBars = <<>> /\ align_infos = <<>>
    /\ nameCache = [n \in Names |-> NoSlot]
    /\ admitted = <<>>
    /\ firstSlot = [n \in Names |-> NoSlot]

\* short ops, ops of minDelIns, and a deletion long enough to reach minDelIns
\* into the region from before it
ExOps == [operation : {"M", "=", "X", "D", "I", "S", "H"},
          count : {1, MinDelIns}] \cup {Op("D", MinDelIns + 2)}

ExCigars == UNION { [1..n -> ExOps] : n \in 1..ExMaxOps }

InitExamine ==
    /\ var = [beginPos |-> VarBegin, refLen |-> VarRefLen, nAlts |-> 1, info |-> NoInfo]
    /\ \E right \in BOOLEAN :
          O = [genotypeRightBreakpoint |-> right, varWindow |-> VarWindow,
               minDelIns |-> MinDelIns, maxSoftClipped |-> MaxSoftClipped,
               maxBARcount |-> MaxBARcount, minMapQ |-> MinMapQ]
    /\ wSizeActual = WSize
    /\ PrIdle
    /\ VcIdle
    /\ ChIdle
    /\ FnIdle
    /\ \E b \in 0..ExMaxPos, c \in ExCigars :
          exRead = [qName |-> "r1", beginPos |-> b, mapQ |-> MinMapQ, flags |-> {},
                    cigar |-> c]
    /\ exVai = <<>>
    /\ exPc = "call"

Examine ==
    /\ exPc = "call"
    /\ exVai' = examineBamAlignment(exRead, var, O)
    /\ exPc' = "done"
    /\ UNCHANGED <<notEx, inVars, exRead>>

NextExamine == Examine

SpecExamine == InitExamine /\ [][NextExamine]_vars

\* reference end of a read: beginPos plus its M, =, X and D counts
RefEnd(record) == record.beginPos + getAlignmentLengthInRef(record)

\* C5: after examineBamAlignment, alignsLeft holds exactly when the read
\* begins strictly left of regionBeg, and alignsRight exactly when the
\* read's reference end lies strictly right of regionEnd.
C5_AlignsFlagsExact ==
    exPc = "done" =>
        /\ exVai.alignsLeft <=> (exRead.beginPos < RegionBeg(var, O))
        /\ exVai.alignsRight <=> (RefEnd(exRead) > RegionEnd(var, O))

----------------------------------------------------------------------------
(* The Preference Scorer: varAlignInfo::alignmentPreference, vaPreference,  *)
(* supports, rejects, present.                                              *)
(*                                                                          *)
(* Numbers: alignment scores are integers; a preference p (a double, in     *)
(* bits) is held as the integer p * logScaleFactor, a genotype penalty c as *)
(* the integer c * 2 * logScaleFactor, so that the divisions by             *)
(* logScaleFactor and by 2.0 are exact.  overlapBits and maxAlignBits are   *)
(* whole bits.  Rounding of float/double is not modelled.                   *)

LogScaleFactor == 2   \* O.logScaleFactor
OverlapBits == 3      \* O.overlapBits
MaxAlignBits == 4     \* O.maxAlignBits
MinPresent == 2       \* O.minPresent

NO_BEST == -1

Abs(x) == IF x < 0 THEN -x ELSE x

RECURSIVE MaxIndexFrom(_, _, _, _)
\* the first loop of alignmentPreference: the lowest index (1-based here)
\* holding the maximum score
MaxIndexFrom(alignS, i, maxI, maxScore) ==
    IF i > Len(alignS) THEN maxI
    ELSE IF alignS[i] > maxScore
         THEN MaxIndexFrom(alignS, i + 1, i, alignS[i])
         ELSE MaxIndexFrom(alignS, i + 1, maxI, maxScore)

\* int minAlignScore = static_cast<double>(wSizeActual) * 1.2
MinAlignScore(W) == (12 * W) \div 10

AlignBitsUncapped(score, maxScore, minAlignScore, opt) ==
    IF score = NO_ALIGNMENT \/ score <= minAlignScore
    THEN maxScore - minAlignScore
    ELSE maxScore - score

\* d for allele i, times logScaleFactor
AlignBits(score, maxScore, minAlignScore, opt) ==
    LET raw == IF score = NO_ALIGNMENT \/ score <= minAlignScore
               THEN maxScore - minAlignScore
               ELSE maxScore - score
    IN  IF raw > opt.maxAlignBits * opt.logScaleFactor
        THEN opt.maxAlignBits * opt.logScaleFactor
        ELSE raw

\* returns the best allele (0-based, or NO_BEST) and the updated pref
alignmentPreference(vai, W, opt, pref) ==
    LET maxI == MaxIndexFrom(vai.alignS, 1, 1, vai.alignS[1])
        maxScore == vai.alignS[maxI]
        minAlignScore == MinAlignScore(W)
    IN  IF maxScore = NO_ALIGNMENT \/ maxScore <= minAlignScore
        THEN [best |-> NO_BEST, pref |-> pref]
        ELSE [best |-> maxI - 1,
              pref |-> [i \in 1..Len(pref) |->
                           pref[i] + AlignBits(vai.alignS[i], maxScore, minAlignScore, opt)]]

RECURSIVE MinDiLastOnTies(_, _, _, _, _, _)
MinDiLastOnTies(altLens, refLen, insDel, i, minDi, minD) ==
    IF i > Len(altLens) THEN minDi
    ELSE LET cD == altLens[i] - refLen
         IN  IF Abs(cD - insDel) <= minD
             THEN MinDiLastOnTies(altLens, refLen, insDel, i + 1, i, Abs(cD - insDel))
             ELSE MinDiLastOnTies(altLens, refLen, insDel, i + 1, minDi, minD)

RECURSIVE MinDiFrom(_, _, _, _, _, _)
\* the search loop of vaPreference: the allele (0-based) whose length change
\* is closest to insDel, lowest index on ties
MinDiFrom(altLens, refLen, insDel, i, minDi, minD) ==
    IF i > Len(altLens) THEN minDi
    ELSE LET cD == altLens[i] - refLen
         IN  IF Abs(cD - insDel) < minD
             THEN MinDiFrom(altLens, refLen, insDel, i + 1, i, Abs(cD - insDel))
             ELSE MinDiFrom(altLens, refLen, insDel, i + 1, minDi, minD)

vaPreferenceClippedUnscored(vai, opt, refLen, altLens, pref) ==
    IF vai.softClipped \/ ~vai.alignsLeft \/ ~vai.alignsRight
    THEN [best |-> NO_BEST, pref |-> pref]
    ELSE LET insDel == vai.nI - vai.nD
             minDi == MinDiFrom(altLens, refLen, insDel, 1, 0, Abs(insDel))
         IN  [best |-> minDi,
              pref |-> [i \in 1..Len(pref) |->
                           IF i - 1 # minDi
                           THEN pref[i] + opt.overlapBits * opt.logScaleFactor
                           ELSE pref[i]]]

vaPreference(vai, opt, refLen, altLens, pref) ==
    IF vai.softClipped
    THEN [best |-> NO_BEST,
          pref |-> [pref EXCEPT ![1] = @ + opt.overlapBits * opt.logScaleFactor]]
    ELSE IF ~vai.alignsLeft \/ ~vai.alignsRight
    THEN [best |-> NO_BEST, pref |-> pref]
    ELSE LET insDel == vai.nI - vai.nD
             minDi == MinDiFrom(altLens, refLen, insDel, 1, 0, Abs(insDel))
         IN  [best |-> minDi,
              pref |-> [i \in 1..Len(pref) |->
                           IF i - 1 # minDi
                           THEN pref[i] + opt.overlapBits * opt.logScaleFactor
                           ELSE pref[i]]]

\* a fraction f of the options is held in percent: x > len * f is
\* 100 * x > len * fPercent
supports(vai, refLen, altLen, opt) ==
    IF altLen > refLen
    THEN \/ /\ vai.alignsLeft /\ vai.alignsRight
            /\ 100 * vai.nI > altLen * opt.altThreshFraction
            /\ 100 * vai.nI < altLen * opt.altThreshFractionMax
         \/ vai.softClipped
    ELSE \/ /\ vai.alignsLeft /\ vai.alignsRight
            /\ 100 * vai.nD > refLen * opt.altThreshFraction
            /\ 100 * vai.nD < refLen * opt.altThreshFractionMax
         \/ vai.softClipped

rejects(vai, refLen, altLen, opt) ==
    IF altLen > refLen
    THEN /\ vai.alignsLeft /\ vai.alignsRight
         /\ 100 * vai.nI < altLen * opt.refThreshFraction
         /\ ~vai.softClipped
    ELSE /\ vai.alignsLeft /\ vai.alignsRight
         /\ 100 * vai.nD < refLen * opt.refThreshFraction
         /\ ~vai.softClipped

present(vai, opt) == vai.nI >= opt.minPresent \/ vai.nD >= opt.minPresent

\* cScore of alternate iP (1-based), times logScaleFactor
VaOldScore(vai, v, iP, opt) ==
    opt.overlapBits * opt.logScaleFactor
      * ((IF rejects(vai, v.refLen, v.altLens[iP], opt) THEN 1 ELSE 0)
         - (IF supports(vai, v.refLen, v.altLens[iP], opt) THEN 1 ELSE 0))

RECURSIVE VaOldBestFrom(_, _, _, _, _, _)
\* the va_old loop: the first alternate with the most negative cScore, else 0
VaOldBestFrom(vai, v, opt, iP, bestI, bestScore) ==
    IF iP > Len(v.altLens) THEN bestI
    ELSE LET cScore == VaOldScore(vai, v, iP, opt)
         IN  IF cScore < bestScore
             THEN VaOldBestFrom(vai, v, opt, iP + 1, iP, cScore)
             ELSE VaOldBestFrom(vai, v, opt, iP + 1, bestI, bestScore)

vaOldPreference(vai, v, opt, pref) ==
    [best |-> VaOldBestFrom(vai, v, opt, 1, 0, 0),
     pref |-> [i \in 1..Len(pref) |->
                  IF i >= 2 THEN pref[i] + VaOldScore(vai, v, i - 1, opt) ELSE pref[i]]]

presencePreference(vai, opt, pref) ==
    [i \in 1..Len(pref) |->
        IF i = 1
        THEN (IF present(vai, opt)
              THEN pref[i] + opt.overlapBits * opt.logScaleFactor ELSE pref[i])
        ELSE IF i = 2
        THEN (IF present(vai, opt)
              THEN pref[i] ELSE pref[i] + opt.overlapBits * opt.logScaleFactor)
        ELSE pref[i] + opt.overlapBits * opt.logScaleFactor]

----------------------------------------------------------------------------
(* The Genotype Aggregator: the body of the read loop of multiUpdateVC *)

MINIMUM_PREF_DIFF == 2

Zeros(n) == [i \in 1..n |-> 0]

UpdateADOnlyOnBest(rI, bestI) ==
    IF bestI # NO_BEST
    THEN [rI EXCEPT ![bestI + 1] = @ + 1, ![Len(rI)] = @ + 1]
    ELSE rI

\* if (bestI != NO_BEST) rI[bestI]++;  rI[rI.size() - 1]++;
UpdateAD(rI, bestI) ==
    LET r1 == IF bestI # NO_BEST THEN [rI EXCEPT ![bestI + 1] = @ + 1] ELSE rI
    IN  [r1 EXCEPT ![Len(r1)] = @ + 1]

UpdateVATotalOnly(VAs, bestI) == [VAs EXCEPT ![Len(VAs)] = @ + 1]

\* if (bestI != NO_BEST) VAs[bestI]++;  VAs[VAs.size() - 1]++;
UpdateVA(VAs, bestI) ==
    LET r1 == IF bestI # NO_BEST THEN [VAs EXCEPT ![bestI + 1] = @ + 1] ELSE VAs
    IN  [r1 EXCEPT ![Len(r1)] = @ + 1]

\* VA_qnames[bestI] = VA_qnames[bestI] + "," + vai.qname  (the string is held
\* as the sequence of the names appended)
UpdateQnames(qnames, bestI, qname) ==
    IF bestI # NO_BEST THEN [qnames EXCEPT ![bestI + 1] = Append(@, qname)] ELSE qnames

RECURSIVE SeqMin(_)
SeqMin(p) == IF Len(p) = 1 THEN p[1] ELSE Min(p[1], SeqMin(Tail(p)))
RECURSIVE SeqMax(_)
SeqMax(p) == IF Len(p) = 1 THEN p[1] ELSE Max(p[1], SeqMax(Tail(p)))

\* prefs[iP] -= minPref
Normalize(p) == [i \in 1..Len(p) |-> p[i] - SeqMin(p)]

InformativeAboveOne(p, opt) == SeqMax(p) - SeqMin(p) > opt.logScaleFactor

\* maxPref - minPref > MINIMUM_PREF_DIFF
Informative(p, opt) ==
    SeqMax(p) - SeqMin(p) > MINIMUM_PREF_DIFF * opt.logScaleFactor

ContributionMeanWhenFar(p, a1, a2, opt) ==
    IF a1 # a2
    THEN IF p[a1] = p[a2] THEN 2 * p[a1]
         ELSE IF p[a1] > p[a2] THEN p[a1] + p[a2]
         ELSE IF p[a2] > p[a1] + 2 * opt.logScaleFactor THEN p[a1] + p[a2]
         ELSE 0
    ELSE 2 * p[a1]

\* what the read adds to vC[vCI] for the genotype (a1, a2), 1-based allele
\* indices, on normalised prefs; times 2 * logScaleFactor
Contribution(p, a1, a2, opt) ==
    IF a1 # a2
    THEN IF p[a1] = p[a2] THEN 2 * p[a1]
         ELSE IF p[a1] > p[a2] + 2 * opt.logScaleFactor
              THEN 2 * (p[a2] + opt.logScaleFactor)
         ELSE IF p[a2] > p[a1] + 2 * opt.logScaleFactor
              THEN 2 * (p[a1] + opt.logScaleFactor)
         ELSE IF p[a1] > p[a2] THEN p[a1] + p[a2]
         ELSE 0
    ELSE 2 * p[a1]

RECURSIVE AddGenotypes(_, _, _, _, _, _)
\* the double loop over a1 and a2 <= a1, vCI counting the genotypes (all
\* 0-based, as in the code)
AddGenotypes(row, p, a1, a2, vCI, opt) ==
    IF a1 >= Len(p) THEN row
    ELSE IF a2 > a1 THEN AddGenotypes(row, p, a1 + 1, 0, vCI, opt)
    ELSE AddGenotypes([row EXCEPT ![vCI + 1] = @ + Contribution(p, a1 + 1, a2 + 1, opt)],
                      p, a1, a2 + 1, vCI + 1, opt)

ReadPrefsJointFromZero(vai, v, W, opt, gtm) ==
    LET p0  == Zeros(Len(v.altLens) + 1)
        rAD == IF gtm \in {"ad", "joint"}
               THEN alignmentPreference(vai, W, opt, p0)
               ELSE [best |-> NO_BEST, pref |-> p0]
        rVA == IF gtm \in {"va", "joint"}
               THEN vaPreference(vai, opt, v.refLen, v.altLens, p0)
               ELSE [best |-> NO_BEST, pref |-> rAD.pref]
        rOld == IF gtm = "va_old"
                THEN vaOldPreference(vai, v, opt, rVA.pref)
                ELSE [best |-> NO_BEST, pref |-> rVA.pref]
        p4  == IF gtm = "presence" THEN presencePreference(vai, opt, rOld.pref)
               ELSE rOld.pref
    IN  [prefs |-> p4, adBest |-> rAD.best, vaBest |-> rVA.best, oldBest |-> rOld.best]

\* the prefs vector of one read under model gtm, before normalisation, with
\* the best alleles the ad and va scorers reported
ReadPrefs(vai, v, W, opt, gtm) ==
    LET p0  == Zeros(Len(v.altLens) + 1)
        rAD == IF gtm \in {"ad", "joint"}
               THEN alignmentPreference(vai, W, opt, p0)
               ELSE [best |-> NO_BEST, pref |-> p0]
        rVA == IF gtm \in {"va", "joint"}
               THEN vaPreference(vai, opt, v.refLen, v.altLens, rAD.pref)
               ELSE [best |-> NO_BEST, pref |-> rAD.pref]
        rOld == IF gtm = "va_old"
                THEN vaOldPreference(vai, v, opt, rVA.pref)
                ELSE [best |-> NO_BEST, pref |-> rVA.pref]
        p4  == IF gtm = "presence" THEN presencePreference(vai, opt, rOld.pref)
               ELSE rOld.pref
    IN  [prefs |-> p4, adBest |-> rAD.best, vaBest |-> rVA.best, oldBest |-> rOld.best]

\* one iteration of the read loop of multiUpdateVC on acc = [vC, rI, VAs,
\* VA_qnames]
UpdateRead(vai, v, W, opt, gtm, acc) ==
    LET r == ReadPrefs(vai, v, W, opt, gtm)
        rI1 == IF gtm \in {"ad", "joint"} THEN UpdateAD(acc.rI, r.adBest) ELSE acc.rI
        VAs1 == IF gtm \in {"va", "joint"} THEN UpdateVA(acc.VAs, r.vaBest)
                ELSE IF gtm = "va_old" THEN UpdateVA(acc.VAs, r.oldBest)
                ELSE acc.VAs
        qn1 == IF gtm \in {"va", "joint"}
               THEN UpdateQnames(acc.VA_qnames, r.vaBest, vai.qname)
               ELSE acc.VA_qnames
        vC1 == IF Informative(r.prefs, opt)
               THEN AddGenotypes(acc.vC, Normalize(r.prefs), 0, 0, 0, opt)
               ELSE acc.vC
    IN  [vC |-> vC1, rI |-> rI1, VAs |-> VAs1, VA_qnames |-> qn1]

----------------------------------------------------------------------------
(* getGtString *)

LG10_MILLI == 3322          \* LG10 = 3.322, in thousandths
LL_THRESHOLD_TENTHS == -255 \* LL_THRESHOLD = -25.5, in tenths

RECURSIVE ScanMaxLastOnTies(_, _, _, _, _, _, _)
ScanMaxLastOnTies(lls, i, a1, a2, maxP, maxA1, maxA2) ==
    IF i >= Len(lls)
    THEN [maxP |-> maxP, maxA1 |-> maxA1, maxA2 |-> maxA2]
    ELSE LET hit == lls[i + 1] >= maxP
             nP  == IF hit THEN lls[i + 1] ELSE maxP
             nA1 == IF hit THEN a1 ELSE maxA1
             nA2 == IF hit THEN a2 ELSE maxA2
         IN  IF a2 < a1
             THEN ScanMaxLastOnTies(lls, i + 1, a1, a2 + 1, nP, nA1, nA2)
             ELSE ScanMaxLastOnTies(lls, i + 1, a1 + 1, 0, nP, nA1, nA2)

RECURSIVE ScanMaxPairAfterStep(_, _, _, _, _, _, _)
ScanMaxPairAfterStep(lls, i, a1, a2, maxP, maxA1, maxA2) ==
    IF i >= Len(lls)
    THEN [maxP |-> maxP, maxA1 |-> maxA1, maxA2 |-> maxA2]
    ELSE LET hit == lls[i + 1] > maxP
             nP  == IF hit THEN lls[i + 1] ELSE maxP
             b1  == IF a2 < a1 THEN a1 ELSE a1 + 1
             b2  == IF a2 < a1 THEN a2 + 1 ELSE 0
             nA1 == IF hit THEN b1 ELSE maxA1
             nA2 == IF hit THEN b2 ELSE maxA2
         IN  ScanMaxPairAfterStep(lls, i + 1, b1, b2, nP, nA1, nA2)

RECURSIVE ScanMax(_, _, _, _, _, _, _)
\* the scan for the maximum of the negated values: a1, a2 run along with i
\* (0-based); returns the pair and the maximum
ScanMax(lls, i, a1, a2, maxP, maxA1, maxA2) ==
    IF i >= Len(lls)
    THEN [maxP |-> maxP, maxA1 |-> maxA1, maxA2 |-> maxA2]
    ELSE LET hit == lls[i + 1] > maxP
             nP  == IF hit THEN lls[i + 1] ELSE maxP
             nA1 == IF hit THEN a1 ELSE maxA1
             nA2 == IF hit THEN a2 ELSE maxA2
         IN  IF a2 < a1
             THEN ScanMax(lls, i + 1, a1, a2 + 1, nP, nA1, nA2)
             ELSE ScanMax(lls, i + 1, a1 + 1, 0, nP, nA1, nA2)

PhredOfNoThreshold(ll, maxP, opt) ==
    (10000 * (maxP - ll)) \div (2 * opt.logScaleFactor * LG10_MILLI)

\* int(-10 * lp) with lp = (lls[i] - maxP) / LG10 raised to LL_THRESHOLD;
\* ll and maxP in units of 1/(2 * logScaleFactor)
PhredOf(ll, maxP, opt) ==
    LET diff == maxP - ll
    IN  IF 10000 * diff > (-LL_THRESHOLD_TENTHS) * 2 * opt.logScaleFactor * LG10_MILLI
        THEN -LL_THRESHOLD_TENTHS
        ELSE (10000 * diff) \div (2 * opt.logScaleFactor * LG10_MILLI)

\* returns the negated lls (the argument is changed in place) and the string,
\* held as a record of its fields
getGtString(lls, ads, vas, va_reads, opt) ==
    LET neg == [i \in 1..Len(lls) |-> -lls[i]]
        m   == ScanMax(neg, 0, 0, 0, neg[1], 0, 0)
    IN  [lls |-> neg,
         gtString |-> [GT |-> <<m.maxA2, m.maxA1>>,
                       AD |-> ads,
                       VA |-> vas,
                       PL |-> [i \in 1..Len(neg) |-> PhredOf(neg[i], m.maxP, opt)],
                       REFREADS |-> va_reads[1],
                       ALTREADS |-> va_reads[2]]]

----------------------------------------------------------------------------
(* processChunk, the genotyping of one variant: SpecVC *)

MaxReads == 2         \* candidate reads of the variant

\* the sub-models processChunk runs, in order
ModelsOf(gtModel) ==
    IF gtModel = "multi" THEN <<"ad", "va", "joint", "presence", "va_old">>
    ELSE <<gtModel>>

GtModels == {"ad", "va", "va_old", "presence", "joint", "multi"}

(* The inputs of this specification *)
VcVariants ==
    { [beginPos |-> VarBegin, refLen |-> 1, altLens |-> <<3>>, nAlts |-> 1,
       info |-> NoInfo],
      [beginPos |-> VarBegin, refLen |-> 2, altLens |-> <<1, 4>>, nAlts |-> 2,
       info |-> NoInfo] }

LowScore == MinAlignScore(WSize)

ScoreVecs(n) ==
    { [i \in 1..n |-> NO_ALIGNMENT],
      [i \in 1..n |-> IF i = 1 THEN LowScore + 10 ELSE LowScore + 1],
      [i \in 1..n |-> IF i = n THEN LowScore + 1 + 2 * LogScaleFactor ELSE LowScore + 1],
      [i \in 1..n |-> IF i = 2 THEN LowScore + 10 ELSE NO_ALIGNMENT] }

Evidence ==
    { [nD |-> 0, nI |-> 2, softClipped |-> FALSE, alignsLeft |-> TRUE, alignsRight |-> TRUE],
      [nD |-> 0, nI |-> 0, softClipped |-> FALSE, alignsLeft |-> TRUE, alignsRight |-> TRUE],
      [nD |-> 0, nI |-> 0, softClipped |-> TRUE, alignsLeft |-> TRUE, alignsRight |-> FALSE],
      [nD |-> 2, nI |-> 0, softClipped |-> FALSE, alignsLeft |-> FALSE, alignsRight |-> TRUE] }

VaiSet(n) ==
    { [qname |-> "", nD |-> e.nD, nI |-> e.nI, alignS |-> sc,
       softClipped |-> e.softClipped, alignsLeft |-> e.alignsLeft,
       alignsRight |-> e.alignsRight] : sc \in ScoreVecs(n), e \in Evidence }

ReadName(k) == <<"r1", "r2", "r3", "r4">>[k]

VcOptions(gtModel) ==
    [genotypeRightBreakpoint |-> FALSE, varWindow |-> VarWindow,
     minDelIns |-> MinDelIns, maxSoftClipped |-> MaxSoftClipped,
     maxBARcount |-> MaxBARcount, minMapQ |-> MinMapQ,
     logScaleFactor |-> LogScaleFactor, overlapBits |-> OverlapBits,
     maxAlignBits |-> MaxAlignBits, minPresent |-> MinPresent,
     altThreshFraction |-> 50, altThreshFractionMax |-> 400, refThreshFraction |-> 25,
     gtModel |-> gtModel]

InitVC ==
    /\ PrIdle
    /\ ExIdle
    /\ ChIdle
    /\ FnIdle
    /\ wSizeActual = WSize
    /\ \E v \in VcVariants, g \in GtModels, n \in 0..MaxReads :
          \E list \in [1..n -> VaiSet(v.nAlts + 1)] :
             /\ var = v
             /\ O = VcOptions(g)
             /\ vais = [k \in 1..n |-> [list[k] EXCEPT !.qname = ReadName(k)]]
             \* vC[mI].resize(nAlleles * (nAlleles + 1) / 2), AD, VA: nAlleles + 1
             /\ vC = [r \in 1..Len(ModelsOf(g)) |->
                         Zeros(((v.nAlts + 1) * (v.nAlts + 2)) \div 2)]
             /\ AD = [r \in 1..Len(ModelsOf(g)) |-> Zeros(v.nAlts + 2)]
             /\ VA = [r \in 1..Len(ModelsOf(g)) |-> Zeros(v.nAlts + 2)]
             /\ VA_QNAMES = [a \in 1..(v.nAlts + 2) |-> <<>>]
    /\ mI = 0
    /\ vcI = 0
    /\ vcPc = "update"
    /\ genotypeInfos = <<>>
    /\ lastPrefs = <<>>

\* the model of the multiUpdateVC call under way
CurrentModel == ModelsOf(O.gtModel)[mI + 1]

\* one iteration of the read loop of the multiUpdateVC call under way
UpdateVC ==
    /\ vcPc = "update"
    /\ vcI < Len(vais)
    /\ LET acc == [vC |-> vC[mI + 1], rI |-> AD[mI + 1], VAs |-> VA[mI + 1],
                   VA_qnames |-> VA_QNAMES]
           new == UpdateRead(vais[vcI + 1], var, wSizeActual, O, CurrentModel, acc)
       IN  /\ vC' = [vC EXCEPT ![mI + 1] = new.vC]
           /\ AD' = [AD EXCEPT ![mI + 1] = new.rI]
           /\ VA' = [VA EXCEPT ![mI + 1] = new.VAs]
           /\ VA_QNAMES' = new.VA_qnames
    /\ lastPrefs' = ReadPrefs(vais[vcI + 1], var, wSizeActual, O, CurrentModel).prefs
    /\ vcI' = vcI + 1
    /\ UNCHANGED <<notVc, inVars, vais, mI, vcPc, genotypeInfos>>

\* the multiUpdateVC call under way returns; the next one starts, or the
\* result strings are written
CallReturns ==
    /\ vcPc = "update"
    /\ vcI = Len(vais)
    /\ IF mI + 1 < Len(vC)
       THEN mI' = mI + 1 /\ vcPc' = vcPc
       ELSE mI' = 0 /\ vcPc' = "emit"
    /\ vcI' = 0
    /\ UNCHANGED <<notVc, inVars, vais, vC, AD, VA, VA_QNAMES, genotypeInfos, lastPrefs>>

\* getGtString on row mI, stored into var.genotypeInfos[0]
Emit ==
    /\ vcPc = "emit"
    /\ LET r == getGtString(vC[mI + 1], AD[mI + 1], VA[mI + 1], VA_QNAMES, O)
       IN  /\ vC' = [vC EXCEPT ![mI + 1] = r.lls]
           /\ genotypeInfos' = r.gtString
    /\ IF mI + 1 < Len(vC)
       THEN mI' = mI + 1 /\ vcPc' = vcPc
       ELSE mI' = mI /\ vcPc' = "done"
    /\ UNCHANGED <<notVc, inVars, vais, AD, VA, VA_QNAMES, vcI, lastPrefs>>

NextVC == UpdateVC \/ CallReturns \/ Emit

SpecVC == InitVC /\ [][NextVC]_vars

----------------------------------------------------------------------------
(* Properties of multiUpdateVC and getGtString, checked under SpecVC *)

\* number of reads the multiUpdateVC call of row r (1-based) has processed
Processed(r) ==
    IF vcPc = "update"
    THEN (IF r < mI + 1 THEN Len(vais) ELSE IF r = mI + 1 THEN vcI ELSE 0)
    ELSE Len(vais)

RECURSIVE SumFirst(_, _)
SumFirst(seq, n) == IF n = 0 THEN 0 ELSE seq[n] + SumFirst(seq, n - 1)

\* the best allele the ad scorer reports for read k
AdBestOf(k) ==
    alignmentPreference(vais[k], wSizeActual, O, Zeros(var.nAlts + 1)).best

\* the spread max - min of the prefs of read k under model gtm, in units of
\* 1/logScaleFactor
SpreadOf(k, gtm) ==
    LET p == ReadPrefs(vais[k], var, wSizeActual, O, gtm).prefs
    IN  SeqMax(p) - SeqMin(p)

\* C6: under ad and joint the total slot AD[nAlleles] equals the number of
\* reads processed, which is the sum of the per-allele slots plus the number
\* of reads with no best; the slot of allele a counts exactly the reads whose
\* best allele is a.
C6_ADTotalCountsEveryRead ==
    \A r \in 1..Len(AD) :
        ModelsOf(O.gtModel)[r] \in {"ad", "joint"} =>
            LET nAlleles == var.nAlts + 1
                done == 1..Processed(r)
            IN  /\ AD[r][nAlleles + 1] = Processed(r)
                /\ AD[r][nAlleles + 1] =
                      SumFirst(AD[r], nAlleles)
                      + Cardinality({k \in done : AdBestOf(k) = NO_BEST})
                /\ \A a \in 1..nAlleles :
                      AD[r][a] = Cardinality({k \in done : AdBestOf(k) = a - 1})

\* C6 witness: the ad model has processed two reads, one with a best allele
\* and one without
C6_Witness ==
    /\ O.gtModel = "ad"
    /\ vcPc = "done"
    /\ Len(vais) = 2
    /\ AD[1][var.nAlts + 2] = 2
    /\ SumFirst(AD[1], var.nAlts + 1) = 1

\* C7: a read whose prefs satisfy max - min <= 2 leaves every entry of every
\* vC row unchanged, under every model.
C7_UninformativeLeavesVC ==
    [][ ( /\ vcPc = "update"
          /\ vcI < Len(vais)
          /\ SpreadOf(vcI + 1, CurrentModel) <= 2 * O.logScaleFactor )
        => vC' = vC ]_vars

\* C7 witness: after an informative first read, a second read with a preference
\* spread of exactly 2 bits was processed: the counters moved, vC kept the
\* first read's contribution
C7_Witness ==
    /\ vcPc = "update"
    /\ vcI = 2
    /\ CurrentModel = "ad"
    /\ SpreadOf(1, "ad") > 2 * O.logScaleFactor
    /\ SpreadOf(2, "ad") = 2 * O.logScaleFactor
    /\ lastPrefs # Zeros(var.nAlts + 1)
    /\ AD[mI + 1][var.nAlts + 2] = 2
    /\ vC[mI + 1] # Zeros(Len(vC[mI + 1]))

\* the row (1-based) whose result string was stored last (0: none yet)
EmittedRow ==
    IF vcPc = "done" THEN Len(vC) ELSE IF vcPc = "emit" THEN mI ELSE 0

AllUninformative(gtm) ==
    \A k \in 1..Len(vais) : SpreadOf(k, gtm) <= 2 * O.logScaleFactor

\* C8: the variant is always emitted; when every candidate read is
\* uninformative under the model of the row (also with no read at all), the
\* row's vC is all zero, the genotype printed is 0/0 and every PL is 0.
C8_UninformativeStillEmitted ==
    /\ vcPc = "done" => genotypeInfos # <<>>
    /\ (EmittedRow >= 1 /\ AllUninformative(ModelsOf(O.gtModel)[EmittedRow])) =>
          /\ genotypeInfos # <<>>
          /\ \A g \in 1..Len(vC[EmittedRow]) : vC[EmittedRow][g] = 0
          /\ genotypeInfos.GT = <<0, 0>>
          /\ Len(genotypeInfos.PL) = Len(vC[EmittedRow])
          /\ \A g \in 1..Len(genotypeInfos.PL) : genotypeInfos.PL[g] = 0

\* C8 witness: two reads, both uninformative under the joint model, one of
\* them with a non-zero spread; the string is emitted with counters of 2
C8_Witness ==
    /\ vcPc = "done"
    /\ O.gtModel = "joint"
    /\ Len(vais) = 2
    /\ AllUninformative("joint")
    /\ SpreadOf(1, "joint") > 0
    /\ genotypeInfos # <<>>
    /\ genotypeInfos.AD[var.nAlts + 2] = 2
    /\ genotypeInfos.VA[var.nAlts + 2] = 2

----------------------------------------------------------------------------
(* processChunk over a chunk of variants, with getLocRefAlt: SpecChunk *)

MaxChunk == 2         \* variants in a chunk

\* a size_t value: [wrapped |-> FALSE, v |-> x] is x, and
\* [wrapped |-> TRUE, v |-> k] is 2^64 - k, what the conversion of the
\* negative number -k to size_t gives
SizeT(x) ==
    IF x < 0 THEN [wrapped |-> TRUE, v |-> -x] ELSE [wrapped |-> FALSE, v |-> x]

RECURSIVE IndexOfName(_, _, _)
IndexOfName(names, name, i) ==
    IF i > Len(names) THEN 0
    ELSE IF names[i] = name THEN i
    ELSE IndexOfName(names, name, i + 1)

\* seqan::getIdByName(idx, faiI, chrom): idx is written only when the name is
\* found
getIdByName(idx, index, name) ==
    LET i == IndexOfName(index, name, 1)
    IN  IF i = 0 THEN [found |-> FALSE, idx |-> idx]
        ELSE [found |-> TRUE, idx |-> i - 1]

\* a call readRegion(seq, faiI, idx, beginPos, endPos): both positions are
\* size_t, the type of int32_t - size_t
ReadRegion(idx, beginPos, endPos) ==
    [idx |-> idx, beginPos |-> SizeT(beginPos), endPos |-> SizeT(endPos)]

RECURSIVE AltRegions(_, _, _, _, _)
\* the readRegion calls of the loop over the alternate alleles, from the
\* 0-based alternate i on
AltRegions(v, idx, W, opt, i) ==
    IF i >= Len(v.altLens) THEN <<>>
    ELSE LET beginPos == v.beginPos
             refLen   == v.refLen
             altLen   == v.altLens[i + 1]
             calls ==
                IF ~opt.genotypeRightBreakpoint
                THEN <<ReadRegion(idx, beginPos - W, beginPos)>>
                     \o (IF altLen < W
                         THEN <<ReadRegion(idx, beginPos + refLen,
                                           beginPos + refLen + W - altLen)>>
                         ELSE <<>>)
                ELSE (IF altLen < W
                      THEN <<ReadRegion(idx, beginPos - W + altLen, beginPos)>>
                      ELSE <<>>)
                     \o <<ReadRegion(idx, beginPos + refLen, beginPos + refLen + W)>>
         IN  calls \o AltRegions(v, idx, W, opt, i + 1)

\* getLocRefAlt, as the sequence of the readRegion calls it makes: a failing
\* getIdByName only warns (under verbose) and idx stays 0
getLocRefAlt(v, index, name, W, opt) ==
    LET id       == getIdByName(0, index, name)
        beginPos == v.beginPos
        refCall  == IF opt.genotypeRightBreakpoint
                    THEN ReadRegion(id.idx, beginPos - W + v.refLen,
                                    beginPos + v.refLen + W)
                    ELSE ReadRegion(id.idx, beginPos - W, beginPos + W)
    IN  <<refCall>> \o AltRegions(v, id.idx, W, opt, 0)

RECURSIVE MaxAlleleLength(_, _, _)
\* the loop of getWSizeActual over the variants: the longest alternate allele
\* and |SVLEN| (0 without an SVLEN item)
MaxAlleleLength(records, i, cur) ==
    IF i > Len(records) THEN cur
    ELSE LET v     == records[i]
             svlen == IF v.info.SVLEN = <<>> THEN 0 ELSE Abs(v.info.SVLEN[1])
         IN  MaxAlleleLength(records, i + 1, Max(Max(cur, SeqMax(v.altLens)), svlen))

getWSizeActual(records, opt) ==
    IF opt.dynamicWSize THEN MaxAlleleLength(records, 1, 0) + opt.wSize
    ELSE opt.wSize

RECURSIVE MinRefLen(_)
MinRefLen(records) ==
    IF Len(records) = 1 THEN records[1].refLen
    ELSE Min(records[1].refLen, MinRefLen(Tail(records)))

RECURSIVE MaxRefLen(_)
MaxRefLen(records) ==
    IF Len(records) = 1 THEN records[1].refLen
    ELSE Max(records[1].refLen, MaxRefLen(Tail(records)))

\* the chromosome interval to fetch records for
GenomeInterval(records, W, opt) ==
    LET b0 == records[1].beginPos
                 + (IF opt.genotypeRightBreakpoint THEN MinRefLen(records) ELSE 0)
        e0 == records[Len(records)].beginPos + 1
                 + (IF opt.genotypeRightBreakpoint THEN MaxRefLen(records) ELSE 0)
    IN  [begin |-> IF W >= b0 THEN 1 ELSE b0 - W, end |-> e0 + W]

RECURSIVE ParseFrom(_, _, _, _, _, _)
\* the loop of parseReads from the record i of bs on; st holds
\* overlappingBars, align_infos and nameCache
ParseFrom(bs, i, v, W, opt, st) ==
    IF i > Len(bs) THEN st
    ELSE LET record == bs[i]
         IN  IF ReturnCond(Len(st.overlappingBars), record, v, W, opt) THEN st
             ELSE IF SkipCond(record, v, W, opt)
                  THEN ParseFrom(bs, i + 1, v, W, opt, st)
             ELSE IF BreakCond(record, v, W, opt) THEN st
             ELSE IF ~AdmitCond(record, opt)
                  THEN ParseFrom(bs, i + 1, v, W, opt, st)
             ELSE IF NameCacheContains(st.nameCache, record.qName)
                  THEN LET index == st.nameCache[record.qName]
                       IN  ParseFrom(bs, i + 1, v, W, opt,
                              [st EXCEPT
                                 !.overlappingBars =
                                     ReplaceBar(@, index, [ptr |-> i, rec |-> record]),
                                 !.align_infos =
                                     ReplaceInfo(@, index,
                                                 examineBamAlignment(record, v, opt))])
             ELSE ParseFrom(bs, i + 1, v, W, opt,
                     [overlappingBars |->
                          Append(st.overlappingBars, [ptr |-> i, rec |-> record]),
                      align_infos |->
                          Append(st.align_infos, examineBamAlignment(record, v, opt)),
                      nameCache |->
                          [st.nameCache EXCEPT ![record.qName] = Len(st.overlappingBars)]])

parseReads(bs, v, W, opt) ==
    ParseFrom(bs, 1, v, W, opt,
              [overlappingBars |-> <<>>, align_infos |-> <<>>,
               nameCache |-> [n \in Names |-> NoSlot]])

RECURSIVE multiUpdateVC(_, _, _, _, _, _, _)
\* the read loop of multiUpdateVC from the 0-based read i on
multiUpdateVC(v, infos, i, W, opt, gtm, acc) ==
    IF i >= Len(infos) THEN acc
    ELSE multiUpdateVC(v, infos, i + 1, W, opt, gtm,
                       UpdateRead(infos[i + 1], v, W, opt, gtm, acc))

RECURSIVE UpdateRows(_, _, _, _, _, _)
\* the multiUpdateVC calls of processChunk, one per row, from the 0-based row
\* r on; st holds vC, AD, VA (a row each per model) and the shared VA_QNAMES
UpdateRows(v, infos, W, opt, r, st) ==
    IF r >= Len(st.vC) THEN st
    ELSE LET acc == [vC |-> st.vC[r + 1], rI |-> st.AD[r + 1], VAs |-> st.VA[r + 1],
                     VA_qnames |-> st.VA_QNAMES]
             new == multiUpdateVC(v, infos, 0, W, opt, ModelsOf(opt.gtModel)[r + 1], acc)
         IN  UpdateRows(v, infos, W, opt, r + 1,
                 [vC |-> [st.vC EXCEPT ![r + 1] = new.vC],
                  AD |-> [st.AD EXCEPT ![r + 1] = new.rI],
                  VA |-> [st.VA EXCEPT ![r + 1] = new.VAs],
                  VA_QNAMES |-> new.VA_qnames])

\* the rows of one variant, as resized by processChunk
NewRows(v, opt) ==
    LET nAlleles == Len(v.altLens) + 1
        rows     == Len(ModelsOf(opt.gtModel))
    IN  [vC |-> [r \in 1..rows |-> Zeros((nAlleles * (nAlleles + 1)) \div 2)],
         AD |-> [r \in 1..rows |-> Zeros(nAlleles + 1)],
         VA |-> [r \in 1..rows |-> Zeros(nAlleles + 1)],
         VA_QNAMES |-> [a \in 1..(nAlleles + 1) |-> <<>>]]

GT_FORMAT == "GT:AD:VA:PL:REFREADS:ALTREADS"

RECURSIVE EmitRows(_, _, _, _)
\* the getGtString loop of processChunk from the 0-based row r on: each string
\* is stored into var.genotypeInfos[0], the last one remains
EmitRows(st, r, opt, cur) ==
    IF r >= Len(st.vC) THEN cur
    ELSE EmitRows(st, r + 1, opt,
                  <<getGtString(st.vC[r + 1], st.AD[r + 1], st.VA[r + 1],
                                st.VA_QNAMES, opt).gtString>>)

(* The inputs of this specification *)
ChBegins == {0, VarBegin}

ChVariants ==
    { [beginPos |-> b, refLen |-> 1, altLens |-> <<3>>, nAlts |-> 1,
       info |-> [TRRBEGIN |-> <<>>, TRREND |-> <<>>, REGBEGIN |-> <<>>,
                 REGEND |-> <<>>, SVLEN |-> <<-2>>],
       format |-> "", genotypeInfos |-> <<>>] : b \in ChBegins }
    \cup
    { [beginPos |-> b, refLen |-> 2, altLens |-> <<1, 4>>, nAlts |-> 2,
       info |-> [TRRBEGIN |-> <<>>, TRREND |-> <<>>, REGBEGIN |-> <<>>,
                 REGEND |-> <<>>, SVLEN |-> <<>>],
       format |-> "", genotypeInfos |-> <<>>] : b \in ChBegins }

\* a chunk: a run of variants of one contig, in position order
ChChunks ==
    { c \in UNION { [1..n -> ChVariants] : n \in 1..MaxChunk } :
        \A i \in 1..(Len(c) - 1) : c[i].beginPos <= c[i + 1].beginPos }

ChRecords ==
    [qName : Names, beginPos : {0, VarBegin - WSize}, mapQ : {MinMapQ},
     flags : {{}}, cigar : {<<Op("M", WSize + 3)>>}]

\* what viewRecords can deliver: records in position order that overlap the
\* interval fetched
ChBarLists(g) ==
    { l \in UNION { [1..n -> ChRecords] : n \in 0..MaxReads } :
        /\ \A i \in 1..(Len(l) - 1) : l[i].beginPos <= l[i + 1].beginPos
        /\ \A i \in 1..Len(l) :
              /\ l[i].beginPos < g.end
              /\ l[i].beginPos + getAlignmentLengthInRef(l[i]) > g.begin }

\* the scores seqan::localAlignmentScore can deliver for n alleles
ChScoreVecs(n, W) ==
    { [i \in 1..n |-> 0],
      [i \in 1..n |-> IF i = 1 THEN MinAlignScore(W) + 10 ELSE MinAlignScore(W) + 1],
      [i \in 1..n |-> IF i = 2 THEN MinAlignScore(W) + 10 ELSE MinAlignScore(W) + 1] }

ChOptions(gtModel, right, dyn, out) ==
    [genotypeRightBreakpoint |-> right, varWindow |-> VarWindow,
     minDelIns |-> MinDelIns, maxSoftClipped |-> MaxSoftClipped,
     maxBARcount |-> MaxBARcount, minMapQ |-> MinMapQ,
     logScaleFactor |-> LogScaleFactor, overlapBits |-> OverlapBits,
     maxAlignBits |-> MaxAlignBits, minPresent |-> MinPresent,
     altThreshFraction |-> 50, altThreshFractionMax |-> 400, refThreshFraction |-> 25,
     gtModel |-> gtModel, wSize |-> WSize, dynamicWSize |-> dyn, outputRefAlt |-> out]

InitChunk ==
    /\ PrIdle
    /\ ExIdle
    /\ VcIdle
    /\ FnIdle
    /\ chrom = "chr1"
    /\ \E known \in BOOLEAN :
          faiI = IF known THEN <<"chr0", "chr1">> ELSE <<"chr0">>
    /\ \E g \in {"joint", "multi"}, right \in BOOLEAN, dyn \in BOOLEAN, out \in BOOLEAN :
          O = ChOptions(g, right, dyn, out)
    /\ vcfRecords \in ChChunks
    /\ var = vcfRecords[1]
    /\ wSizeActual = getWSizeActual(vcfRecords, O)
    /\ bars = <<>>
    /\ genome = <<>>
    /\ chI = 0
    /\ chPc = "fetch"
    /\ regionCalls = <<>>
    /\ nAligned = <<>>

\* what processChunk leaves alone
chKeeps == <<pc, nRead, lastBegin, nameCache, admitted, firstSlot, exVars, vcVars,
             O, wSizeActual, faiI, chrom, fnVars>>

\* the interval is computed and the reads of the chunk are fetched
ChFetch ==
    /\ chPc = "fetch"
    /\ genome' = GenomeInterval(vcfRecords, wSizeActual, O)
    /\ bars' \in ChBarLists(genome')
    /\ chPc' = "parse"
    /\ UNCHANGED <<chKeeps, var, vcfRecords, chI, regionCalls, nAligned,
                   overlappingBars, align_infos>>

\* parseReads on the variant var
ChParse ==
    /\ chPc = "parse"
    /\ LET r == parseReads(bars, var, wSizeActual, O)
       IN  /\ overlappingBars' = r.overlappingBars
           /\ align_infos' = r.align_infos
    /\ chPc' = "process"
    /\ UNCHANGED <<chKeeps, var, vcfRecords, bars, genome, chI, regionCalls, nAligned>>

\* LRprocessReads on the variant var: the allele windows are read, then every
\* candidate read is aligned to them unless outputRefAlt returns before
ChProcess ==
    /\ chPc = "process"
    /\ regionCalls' = Append(regionCalls, getLocRefAlt(var, faiI, chrom, wSizeActual, O))
    /\ IF O.outputRefAlt
       THEN /\ align_infos' = align_infos
            /\ nAligned' = Append(nAligned, 0)
       ELSE /\ \E scores \in [1..Len(overlappingBars) ->
                                 ChScoreVecs(Len(var.altLens) + 1, wSizeActual)] :
                  align_infos' = [k \in 1..Len(align_infos) |->
                                     [align_infos[k] EXCEPT !.alignS = scores[k]]]
            /\ nAligned' = Append(nAligned, Len(overlappingBars))
    /\ chPc' = "genotype"
    /\ UNCHANGED <<chKeeps, var, vcfRecords, bars, genome, chI, overlappingBars>>

\* the multiUpdateVC calls and the getGtString loop on the variant var; the
\* loop over the variants goes on
ChGenotype ==
    /\ chPc = "genotype"
    /\ LET st == UpdateRows(var, align_infos, wSizeActual, O, 0, NewRows(var, O))
           gt == EmitRows(st, 0, O, var.genotypeInfos)
       IN  vcfRecords' = [vcfRecords EXCEPT ![chI + 1].genotypeInfos = gt,
                                            ![chI + 1].format = GT_FORMAT]
    /\ chI' = chI + 1
    /\ IF chI + 1 < Len(vcfRecords)
       THEN var' = vcfRecords'[chI + 2] /\ chPc' = "parse"
       ELSE var' = vcfRecords'[chI + 1] /\ chPc' = "done"
    /\ overlappingBars' = <<>>
    /\ align_infos' = <<>>
    /\ UNCHANGED <<chKeeps, bars, genome, regionCalls, nAligned>>

NextChunk == ChFetch \/ ChParse \/ ChProcess \/ ChGenotype

SpecChunk == InitChunk /\ [][NextChunk]_vars

----------------------------------------------------------------------------
(* Properties of processChunk and getLocRefAlt, checked under SpecChunk *)

ContigMissing == IndexOfName(faiI, chrom, 1) = 0

\* C9: when the variant's contig has no entry in the reference index the
\* variant is skipped: no reference interval is read for it, no read is
\* aligned and neither a genotype string nor the format is written into the
\* variant record.
C9_MissingContigSkipsVariant ==
    ContigMissing =>
        /\ \A k \in 1..Len(regionCalls) : regionCalls[k] = <<>>
        /\ \A k \in 1..Len(nAligned) : nAligned[k] = 0
        /\ \A k \in 1..Len(vcfRecords) :
              /\ vcfRecords[k].genotypeInfos = <<>>
              /\ vcfRecords[k].format = ""

\* C10: for a variant with beginPos - W < 0 no readRegion call gets a
\* wrapped-around start: the starts below 0 are clamped to 0.
C10_WindowStartClamped ==
    \A k \in 1..Len(regionCalls) :
        vcfRecords[k].beginPos - wSizeActual < 0 =>
            \A c \in 1..Len(regionCalls[k]) : ~regionCalls[k][c].beginPos.wrapped

----------------------------------------------------------------------------
(* getLocRefAlt on its own, with the sequences it builds: SpecWindow *)

WinMaxBegin == 6      \* largest var.beginPos
WinMaxW == 3          \* largest wSizeActual
WinMaxAlt == 4        \* longest alternate allele
WinMaxRef == 2        \* longest reference allele
ContigLen == 10       \* length of the contig in the reference index

\* the contig: the base at the 0-based position p is named by p
Contig == [p \in 1..ContigLen |-> <<"ref", 0, p - 1>>]

\* strSplit(altSet, variant.alt, ','): base j of the alternate i (0-based) is
\* named by i and j
AltSet(v) ==
    [i \in 1..Len(v.altLens) |-> [j \in 1..v.altLens[i] |-> <<"alt", i - 1, j - 1>>]]

\* seqan::infixWithLength(s, pos, len)
infixWithLength(s, pos, len) == SubSeq(s, pos + 1, pos + len)

\* what seqan::readRegion delivers for a call: the region is limited to the
\* contig (a wrapped-around start lies beyond its end)
RegionOf(contig, call) ==
    LET b == IF call.beginPos.wrapped THEN Len(contig)
             ELSE Min(call.beginPos.v, Len(contig))
        e == IF call.endPos.wrapped THEN Len(contig)
             ELSE Min(Max(b, call.endPos.v), Len(contig))
    IN  SubSeq(contig, b + 1, e)

AltWindowWholePost(v, i, W, opt, contig) ==
    LET beginPos == v.beginPos
        refLen   == v.refLen
        altLen   == v.altLens[i + 1]
        alt      == AltSet(v)[i + 1]
    IN  IF ~opt.genotypeRightBreakpoint
        THEN RegionOf(contig, ReadRegion(0, beginPos - W, beginPos))
             \o (IF altLen < W
                 THEN alt \o RegionOf(contig, ReadRegion(0, beginPos + refLen,
                                                        beginPos + refLen + W))
                 ELSE infixWithLength(alt, 0, W))
        ELSE (IF altLen < W
              THEN RegionOf(contig, ReadRegion(0, beginPos - W + altLen, beginPos)) \o alt
              ELSE infixWithLength(alt, altLen - W, W))
             \o RegionOf(contig, ReadRegion(0, beginPos + refLen, beginPos + refLen + W))

\* altSeqs[i] as the loop over the alternates builds it (i is 0-based)
AltWindow(v, i, W, opt, contig) ==
    LET beginPos == v.beginPos
        refLen   == v.refLen
        altLen   == v.altLens[i + 1]
        alt      == AltSet(v)[i + 1]
    IN  IF ~opt.genotypeRightBreakpoint
        THEN RegionOf(contig, ReadRegion(0, beginPos - W, beginPos))
             \o (IF altLen < W
                 THEN alt \o RegionOf(contig, ReadRegion(0, beginPos + refLen,
                                                        beginPos + refLen + W - altLen))
                 ELSE infixWithLength(alt, 0, W))
        ELSE (IF altLen < W
              THEN RegionOf(contig, ReadRegion(0, beginPos - W + altLen, beginPos)) \o alt
              ELSE infixWithLength(alt, altLen - W, W))
             \o RegionOf(contig, ReadRegion(0, beginPos + refLen, beginPos + refLen + W))

\* refSeq
RefWindow(v, W, opt, contig) ==
    IF opt.genotypeRightBreakpoint
    THEN RegionOf(contig, ReadRegion(0, v.beginPos - W + v.refLen,
                                     v.beginPos + v.refLen + W))
    ELSE RegionOf(contig, ReadRegion(0, v.beginPos - W, v.beginPos + W))

WinVariants ==
    { [beginPos |-> b, refLen |-> l, altLens |-> a, nAlts |-> Len(a), info |-> NoInfo] :
        b \in 0..WinMaxBegin, l \in 1..WinMaxRef,
        a \in UNION { [1..n -> 0..WinMaxAlt] : n \in 1..2 } }

InitWindow ==
    /\ PrIdle /\ ExIdle /\ VcIdle /\ ChIdle
    /\ var \in WinVariants
    /\ \E right \in BOOLEAN : O = ChOptions("joint", right, FALSE, FALSE)
    /\ wSizeActual \in 1..WinMaxW
    /\ callArgs = [contig |-> Contig]
    /\ callRes = <<>>
    /\ callPc = "call"

\* getLocRefAlt(variant, faiI, chrom, refSeq, altSeqs, wSizeActual, O)
BuildWindows ==
    /\ callPc = "call"
    /\ callRes' =
          [refSeq |-> RefWindow(var, wSizeActual, O, callArgs.contig),
           altSeqs |-> [i \in 1..Len(var.altLens) |->
                           AltWindow(var, i - 1, wSizeActual, O, callArgs.contig)]]
    /\ callPc' = "done"
    /\ UNCHANGED <<inVars, prVars, exVars, vcVars, chVars, callArgs>>

NextWindow == BuildWindows

SpecWindow == InitWindow /\ [][NextWindow]_vars

\* the variant lies at least W after the contig start and the contig reaches
\* beyond every window
WindowsInside ==
    /\ var.beginPos >= wSizeActual
    /\ var.beginPos + var.refLen + wSizeActual <= Len(callArgs.contig)

\* ref[from .. to) of the contig
RefBases(from, to) == [k \in 1..(to - from) |-> <<"ref", 0, from + k - 1>>]

\* C11: for a variant with beginPos >= W and enough reference after it every
\* alternate window has length 2W; in left-breakpoint mode it starts with
\* ref[B-W .. B) followed by the first min(Ai, W) bases of the alternate, in
\* right-breakpoint mode it ends with ref[B+L .. B+L+W) preceded by the last
\* min(Ai, W) bases of the alternate.
C11_AltWindowIs2W ==
    (callPc = "done" /\ WindowsInside) =>
        \A i \in 1..Len(var.altLens) :
            LET W   == wSizeActual
                B   == var.beginPos
                L   == var.refLen
                Ai  == var.altLens[i]
                n   == Min(Ai, W)
                alt == AltSet(var)[i]
                win == callRes.altSeqs[i]
            IN  /\ Len(win) = 2 * W
                /\ ~O.genotypeRightBreakpoint =>
                      /\ SubSeq(win, 1, W) = RefBases(B - W, B)
                      /\ SubSeq(win, W + 1, W + n) = SubSeq(alt, 1, n)
                /\ O.genotypeRightBreakpoint =>
                      /\ SubSeq(win, W + 1, 2 * W) = RefBases(B + L, B + L + W)
                      /\ SubSeq(win, W - n + 1, W) = SubSeq(alt, Ai - n + 1, Ai)

\* C11 witness: windows built for alternates of length W - 1 and W + 1 of a
\* variant inside the contig, in right-breakpoint mode
C11_Witness ==
    /\ callPc = "done"
    /\ WindowsInside
    /\ O.genotypeRightBreakpoint
    /\ wSizeActual >= 2
    /\ var.altLens = <<wSizeActual - 1, wSizeActual + 1>>
    /\ Len(callRes.altSeqs[1]) = 2 * wSizeActual
    /\ Len(callRes.altSeqs[2]) = 2 * wSizeActual

----------------------------------------------------------------------------
(* cropSeq on its own: SpecCrop *)

CropMaxOps == 3       \* CIGAR ops per read
CropMaxPos == 5       \* largest read begin position
CropLong == 3         \* the longer of the two op counts

\* searchPos, raised to 0
CropSearchPos(v, W, opt) ==
    Max(IF opt.genotypeRightBreakpoint THEN v.beginPos + v.refLen + W
        ELSE v.beginPos - W, 0)

RECURSIVE CropWalk(_, _, _)
\* the loop over the CIGAR up to searchPos
CropWalk(cigar, searchPos, st) ==
    IF st.alignPos < searchPos /\ st.cigarI < Len(cigar)
    THEN LET c  == cigar[st.cigarI + 1]
             op == c.operation
         IN  CropWalk(cigar, searchPos,
                 [alignPos |-> IF op \in {"D", "=", "X", "M"}
                               THEN st.alignPos + c.count ELSE st.alignPos,
                  readPos |-> IF op \in {"=", "X", "M", "S", "I"}
                              THEN st.readPos + c.count ELSE st.readPos,
                  lReadPos |-> st.readPos,
                  cigarI |-> st.cigarI + 1,
                  cigarOperation |-> op])
    ELSE st

\* rBeg and rEnd before the clamps
CropRaw(bar, v, W, opt) ==
    LET searchPos == CropSearchPos(v, W, opt)
        st == CropWalk(bar.cigar, searchPos,
                       [alignPos |-> bar.beginPos, readPos |-> 0, lReadPos |-> 0,
                        cigarI |-> 0, cigarOperation |-> bar.cigar[1].operation])
        readPos == IF st.cigarOperation \in {"S", "H"} THEN st.lReadPos ELSE st.readPos
        alignPos == st.alignPos
    IN  IF opt.genotypeRightBreakpoint
        THEN IF alignPos >= searchPos - 2 * W
             THEN [rBeg |-> readPos - 2 * W + (searchPos - alignPos),
                   rEnd |-> readPos + (searchPos - alignPos)]
             ELSE [rBeg |-> readPos, rEnd |-> readPos + W]
        ELSE [rBeg |-> readPos - (alignPos - searchPos),
              rEnd |-> readPos + 2 * W - (alignPos - searchPos)]

CropClampKeepEmpty(raw, W, seqLen) ==
    LET rBeg1 == IF raw.rBeg < 0 THEN 0 ELSE raw.rBeg
        rEnd1 == IF raw.rEnd < 2 * W THEN 2 * W ELSE raw.rEnd
        rEnd2 == IF rEnd1 > seqLen THEN seqLen ELSE rEnd1
    IN  [rBeg |-> rBeg1, rEnd |-> rEnd2]

\* the clamps, in the order of the code, and the widening of an empty window
CropClamp(raw, W, seqLen) ==
    LET rBeg1 == IF raw.rBeg < 0 THEN 0 ELSE raw.rBeg
        rEnd1 == IF raw.rEnd < 2 * W THEN 2 * W ELSE raw.rEnd
        rEnd2 == IF rEnd1 > seqLen THEN seqLen ELSE rEnd1
    IN  [rBeg |-> IF rEnd2 = rBeg1 THEN rBeg1 - 1 ELSE rBeg1, rEnd |-> rEnd2]

\* cropSeq: the bounds of the infix taken from bar.seq
cropSeq(bar, v, W, opt) == CropClamp(CropRaw(bar, v, W, opt), W, SeqLength(bar))

CropOps == [operation : {"M", "D", "I", "S", "H"}, count : {1, CropLong}]

CropCigars == UNION { [1..n -> CropOps] : n \in 1..CropMaxOps }

InitCrop ==
    /\ PrIdle /\ ExIdle /\ VcIdle /\ ChIdle
    /\ var = [beginPos |-> VarBegin, refLen |-> VarRefLen, nAlts |-> 1, info |-> NoInfo]
    /\ \E right \in BOOLEAN : O = ChOptions("joint", right, FALSE, FALSE)
    /\ wSizeActual \in {WSize, WSize + 1}
    /\ \E b \in 0..CropMaxPos, c \in CropCigars :
          callArgs = [bar |-> [qName |-> "r1", beginPos |-> b, mapQ |-> MinMapQ,
                               flags |-> {}, cigar |-> c]]
    /\ callRes = <<>>
    /\ callPc = "call"

\* cropSeq(b, variant, wSizeActual, O, seqToAlign)
Crop ==
    /\ callPc = "call"
    /\ callRes' = cropSeq(callArgs.bar, var, wSizeActual, O)
    /\ callPc' = "done"
    /\ UNCHANGED <<inVars, prVars, exVars, vcVars, chVars, callArgs>>

NextCrop == Crop

SpecCrop == InitCrop /\ [][NextCrop]_vars

\* the read passes every test of the loop body of parseReads but the cap
AdmittedByParseReads(record, v, W, opt) ==
    /\ ~(record.beginPos > StopReading(v, W, opt))
    /\ ~SkipCond(record, v, W, opt)
    /\ ~BreakCond(record, v, W, opt)
    /\ AdmitCond(record, opt)

\* C12: for a read parseReads admits, with a non-empty sequence as long as
\* its CIGAR says, cropSeq ends with 0 <= rBeg < rEnd <= len(seq) and
\* rEnd - rBeg <= 2W; the bounds are the clamps applied in the order
\* rBeg = max(rBeg, 0), rEnd = max(rEnd, 2W), rEnd = min(rEnd, len(seq)), an
\* empty window widened by decrementing rBeg.
C12_CropBoundsInsideRead ==
    (/\ callPc = "done"
     /\ AdmittedByParseReads(callArgs.bar, var, wSizeActual, O)
     /\ SeqLength(callArgs.bar) >= 1) =>
        LET len  == SeqLength(callArgs.bar)
            raw  == CropRaw(callArgs.bar, var, wSizeActual, O)
            rBeg == Max(raw.rBeg, 0)
            rEnd == Min(Max(raw.rEnd, 2 * wSizeActual), len)
        IN  /\ 0 <= callRes.rBeg
            /\ callRes.rBeg < callRes.rEnd
            /\ callRes.rEnd <= len
            /\ callRes.rEnd - callRes.rBeg <= 2 * wSizeActual
            /\ callRes.rEnd = rEnd
            /\ callRes.rBeg = IF rBeg = rEnd THEN rBeg - 1 ELSE rBeg

\* C12 witness: an admitted read that ends before the window is reached, in
\* right-breakpoint mode: the window clamped to the read is empty and widened
C12_Witness ==
    /\ callPc = "done"
    /\ O.genotypeRightBreakpoint
    /\ AdmittedByParseReads(callArgs.bar, var, wSizeActual, O)
    /\ CropRaw(callArgs.bar, var, wSizeActual, O).rBeg = SeqLength(callArgs.bar)
    /\ callRes.rEnd = SeqLength(callArgs.bar)
    /\ callRes.rBeg = callRes.rEnd - 1

----------------------------------------------------------------------------
(* Properties of getGtString, checked under SpecVC *)

RECURSIVE ScanPair(_)
\* the pair (a1, a2) the scan of getGtString holds at the start of iteration i
ScanPair(i) ==
    IF i = 0 THEN [a1 |-> 0, a2 |-> 0]
    ELSE LET p == ScanPair(i - 1)
         IN  IF p.a2 < p.a1 THEN [a1 |-> p.a1, a2 |-> p.a2 + 1]
             ELSE [a1 |-> p.a1 + 1, a2 |-> 0]

GenotypeIndex(a1, a2) == (a1 * (a1 + 1)) \div 2 + a2

\* C13: the genotype printed is a2/a1 with a2 <= a1, the pair of the smallest
\* index at which the accumulated vC is minimal (the row is held negated once
\* written: the first maximum); the pair the scan tracks at iteration i has
\* index i.
C13_PrintsPairOfMaximizer ==
    EmittedRow >= 1 =>
        LET row == vC[EmittedRow]
            a2  == genotypeInfos.GT[1]
            a1  == genotypeInfos.GT[2]
            g   == GenotypeIndex(a1, a2) + 1
        IN  /\ a2 <= a1
            /\ g \in 1..Len(row)
            /\ \A h \in 1..Len(row) : row[h] <= row[g]
            /\ \A h \in 1..(g - 1) : row[h] < row[g]
            /\ \A i \in 0..(Len(row) - 1) :
                  GenotypeIndex(ScanPair(i).a1, ScanPair(i).a2) = i

\* C13 witness: three alleles, the string written is 1/2, the genotype of
\* index 4
C13_Witness ==
    /\ vcPc = "done"
    /\ var.nAlts = 2
    /\ Len(vais) >= 1
    /\ genotypeInfos.GT = <<1, 2>>

----------------------------------------------------------------------------
(* getGtString on its own, on any row of penalties: SpecGt *)

\* penalties in units of 1/(2 * logScaleFactor): small ones, and ones around
\* 85 bits, where 10 * bits / LG10 passes 255
GtValues ==
    {0, 1, 3 * LogScaleFactor, 169 * LogScaleFactor, 170 * LogScaleFactor,
     200 * LogScaleFactor}

InitGt ==
    /\ PrIdle /\ ExIdle /\ VcIdle /\ ChIdle
    /\ var \in VcVariants
    /\ O = VcOptions("joint")
    /\ wSizeActual = WSize
    /\ \E lls \in [1..Len(NewRows(var, O).vC[1]) -> GtValues] :
          callArgs = [lls |-> lls, ads |-> NewRows(var, O).AD[1],
                      vas |-> NewRows(var, O).VA[1],
                      va_reads |-> NewRows(var, O).VA_QNAMES]
    /\ callRes = <<>>
    /\ callPc = "call"

\* getGtString(vC[mI], AD[mI], VA[mI], VA_QNAMES, gtString)
WriteGtString ==
    /\ callPc = "call"
    /\ callRes' = getGtString(callArgs.lls, callArgs.ads, callArgs.vas,
                              callArgs.va_reads, O)
    /\ callPc' = "done"
    /\ UNCHANGED <<inVars, prVars, exVars, vcVars, chVars, callArgs>>

NextGt == WriteGtString

SpecGt == InitGt /\ [][NextGt]_vars

\* C14: the PL list has k(k+1)/2 entries for k = nAlts + 1 alleles, every PL
\* is an integer in 0..255, the PL of the printed genotype is 0, PL is
\* non-decreasing in the penalty vC[g], and
\* PL[g] = min(10 * (vC[g] - vC[best]) / LG10, 255) cut to an integer.
C14_PLRange ==
    callPc = "done" =>
        LET PL   == callRes.gtString.PL
            lls  == callArgs.lls
            k    == var.nAlts + 1
            best == GenotypeIndex(callRes.gtString.GT[2], callRes.gtString.GT[1]) + 1
        IN  /\ Len(PL) = (k * (k + 1)) \div 2
            /\ \A g \in 1..Len(PL) : PL[g] \in 0..255
            /\ PL[best] = 0
            /\ \A g, h \in 1..Len(PL) : lls[g] <= lls[h] => PL[g] <= PL[h]
            /\ \A g \in 1..Len(PL) :
                  PL[g] = Min((10000 * (lls[g] - lls[best]))
                                 \div (2 * O.logScaleFactor * LG10_MILLI), 255)

\* C14 witness: a row whose best genotype is not the first, with a PL cut at
\* 255 and a PL just below
C14_Witness ==
    /\ callPc = "done"
    /\ callRes.gtString.GT # <<0, 0>>
    /\ \E g, h \in 1..Len(callRes.gtString.PL) :
          /\ callRes.gtString.PL[g] = 255
          /\ callArgs.lls[g] - callArgs.lls[h] = 200 * LogScaleFactor
          /\ callRes.gtString.PL[h] = 0
    /\ \E g \in 1..Len(callRes.gtString.PL) : callRes.gtString.PL[g] = 254

----------------------------------------------------------------------------
(* The rows of the multi model against the single models, checked under SpecVC *)

\* the string processChunk stores for the variant var with the candidate
\* reads vais when gtModel is the single model gtm
SingleModelString(gtm) ==
    LET opt == [O EXCEPT !.gtModel = gtm]
        st  == UpdateRows(var, vais, wSizeActual, opt, 0, NewRows(var, opt))
    IN  EmitRows(st, 0, opt, <<>>)[1]

\* C15: in multi mode every string written (for ad, va, joint, presence and
\* va_old in turn, the last one remaining in the variant record) is identical,
\* read-name fields included, to the string written when gtModel is that
\* single model.
C15_MultiRowsAsSingleModels ==
    [][(O.gtModel = "multi" /\ Emit) =>
          genotypeInfos' = SingleModelString(ModelsOf("multi")[mI + 1])]_vars

----------------------------------------------------------------------------
(* The va scorer on a soft-clipped read, checked under SpecVC *)

\* C16: under the va model a soft-clipped read gets overlapBits on prefs[0]
\* and nothing on any other entry, has no best allele (no per-allele VA slot
\* is incremented, no read name is appended), and still counts in the VA
\* total slot.
C16_SoftClippedUnderVa ==
    [][(UpdateVC /\ CurrentModel = "va" /\ vais[vcI + 1].softClipped) =>
          /\ lastPrefs' = [i \in 1..(var.nAlts + 1) |->
                              IF i = 1 THEN O.overlapBits * O.logScaleFactor ELSE 0]
          /\ \A a \in 1..(var.nAlts + 1) : VA'[mI + 1][a] = VA[mI + 1][a]
          /\ VA'[mI + 1][var.nAlts + 2] = VA[mI + 1][var.nAlts + 2] + 1
          /\ VA_QNAMES' = VA_QNAMES]_vars

\* C16 witness: the va call has just handled a soft-clipped read, after a
\* read that did get a best allele
C16_Witness ==
    /\ vcPc = "update"
    /\ CurrentModel = "va"
    /\ vcI = 2
    /\ vais[2].softClipped
    /\ ~vais[1].softClipped
    /\ lastPrefs[1] = O.overlapBits * O.logScaleFactor
    /\ VA[mI + 1][var.nAlts + 2] = 2
    /\ SumFirst(VA[mI + 1], var.nAlts + 1) = 1

----------------------------------------------------------------------------
(* getWSizeActual on the text of the info and alt fields: SpecWSize *)
(* A string is the sequence of its characters.                              *)

WsMaxItems == 2       \* entries of an info field
WsMaxChunk == 2       \* variants of a chunk

Digits == <<"0", "1", "2", "3", "4", "5", "6", "7", "8", "9">>

IsDigit(c) == \E d \in 1..10 : Digits[d] = c

DigitValue(c) == (CHOOSE d \in 1..10 : Digits[d] = c) - 1

\* item.find(needle) != std::string::npos
Contains(s, needle) ==
    \E k \in 0..(Len(s) - Len(needle)) : SubSeq(s, k + 1, k + Len(needle)) = needle

RECURSIVE SplitFrom(_, _, _, _)
\* split(res, ";"): the pieces between the delimiters, the last one included
SplitFrom(s, delim, i, piece) ==
    IF i > Len(s) THEN <<piece>>
    ELSE IF s[i] = delim THEN <<piece>> \o SplitFrom(s, delim, i + 1, <<>>)
    ELSE SplitFrom(s, delim, i + 1, Append(piece, s[i]))

split(s, delim) == SplitFrom(s, delim, 1, <<>>)

RECURSIVE DigitsValue(_, _, _)
DigitsValue(s, i, acc) ==
    IF i > Len(s) \/ ~IsDigit(s[i]) THEN acc
    ELSE DigitsValue(s, i + 1, 10 * acc + DigitValue(s[i]))

\* std::stoi: an optional sign, then the digits up to the first other
\* character; throws when no digit stands there
stoi(s) ==
    LET start == IF Len(s) >= 1 /\ s[1] \in {"-", "+"} THEN 2 ELSE 1
    IN  IF start > Len(s) \/ ~IsDigit(s[start])
        THEN [threw |-> TRUE, v |-> 0]
        ELSE [threw |-> FALSE,
              v |-> IF s[1] = "-" THEN -DigitsValue(s, start, 0)
                    ELSE DigitsValue(s, start, 0)]

SVLEN_KEY == <<"S", "V", "L", "E", "N">>

RECURSIVE SvlenOfFirstItemOnly(_, _)
SvlenOfFirstItemOnly(infos, i) ==
    IF i > 1 \/ i > Len(infos) THEN [threw |-> FALSE, v |-> 0]
    ELSE IF Contains(infos[i], SVLEN_KEY)
    THEN IF Len(infos[i]) < 6 THEN [threw |-> TRUE, v |-> 0]
         ELSE LET r == stoi(SubSeq(infos[i], 7, Len(infos[i])))
              IN  [threw |-> r.threw, v |-> Abs(r.v)]
    ELSE SvlenOfFirstItemOnly(infos, i + 1)

RECURSIVE SvlenFrom(_, _)
\* the loop over the items: the first item that holds "SVLEN" is read from
\* its 7th character on (substr(6, ...) throws past the end of the item), and
\* the loop ends there
SvlenFrom(infos, i) ==
    IF i > Len(infos) THEN [threw |-> FALSE, v |-> 0]
    ELSE IF Contains(infos[i], SVLEN_KEY)
    THEN IF Len(infos[i]) < 6 THEN [threw |-> TRUE, v |-> 0]
         ELSE LET r == stoi(SubSeq(infos[i], 7, Len(infos[i])))
              IN  [threw |-> r.threw, v |-> Abs(r.v)]
    ELSE SvlenFrom(infos, i + 1)

RECURSIVE AltScan(_, _, _, _)
\* the scan of var.alt for its longest comma-separated piece; i is 0-based
\* and runs to length(var.alt) included
AltScan(alt, i, len, cur) ==
    IF i > Len(alt) THEN cur
    ELSE IF i = Len(alt) \/ alt[i + 1] = ","
    THEN AltScan(alt, i + 1, 1, Max(cur, len - 1))
    ELSE AltScan(alt, i + 1, len + 1, cur)

RECURSIVE MaxAlleleLengthOfText(_, _, _)
\* the loop of getWSizeActual over the variants, on the text of their fields
MaxAlleleLengthOfText(records, i, cur) ==
    IF i > Len(records) THEN [threw |-> FALSE, v |-> cur]
    ELSE LET svlen == SvlenFrom(split(records[i].info, ";"), 1)
             alts  == AltScan(records[i].alt, 0, 1, cur)
         IN  IF svlen.threw THEN [threw |-> TRUE, v |-> 0]
             ELSE MaxAlleleLengthOfText(records, i + 1, Max(alts, svlen.v))

getWSizeActualOfText(records, opt) ==
    IF opt.dynamicWSize
    THEN LET m == MaxAlleleLengthOfText(records, 1, 0)
         IN  [threw |-> m.threw, v |-> m.v + opt.wSize]
    ELSE [threw |-> FALSE, v |-> opt.wSize]

(* The inputs of this specification *)
RECURSIVE NatText(_)
NatText(n) == IF n < 10 THEN <<Digits[n + 1]>> ELSE Append(NatText(n \div 10), Digits[(n % 10) + 1])

IntText(n) == IF n < 0 THEN <<"-">> \o NatText(-n) ELSE NatText(n)

RECURSIVE Join(_, _)
Join(pieces, delim) ==
    IF Len(pieces) = 0 THEN <<>>
    ELSE IF Len(pieces) = 1 THEN pieces[1]
    ELSE pieces[1] \o <<delim>> \o Join(Tail(pieces), delim)

WsSvlens == {5, -3, 12, -500}

SvlenItem(n) == SVLEN_KEY \o <<"=">> \o IntText(n)

WsOtherItems ==
    { <<"E", "N", "D", "=", "7">>,
      <<"P", "R", "E", "C", "I", "S", "E">>,
      <<"S", "V", "T", "Y", "P", "E", "=", "I", "N", "S">> }

WsItems == WsOtherItems \cup { SvlenItem(n) : n \in WsSvlens }

\* the entries of an info field, at most one of them SVLEN
WsItemLists ==
    { l \in UNION { [1..n -> WsItems] : n \in 0..WsMaxItems } :
        \A j, k \in 1..Len(l) : (l[j] \notin WsOtherItems /\ l[k] \notin WsOtherItems) => j = k }

WsAltLens == {<<1>>, <<3>>, <<1, 4>>}

WsVariant(items, altLens) ==
    [items |-> items, altLens |-> altLens,
     info |-> Join(items, ";"),
     alt |-> Join([k \in 1..Len(altLens) |-> [j \in 1..altLens[k] |-> "A"]], ",")]

WsVariants == { WsVariant(l, a) : l \in WsItemLists, a \in WsAltLens }

WsFillers == { WsVariant(<<>>, <<1>>), WsVariant(<<SvlenItem(-3)>>, <<1, 4>>) }

\* chunks: any variant at one place, plain ones around it
WsChunks ==
    UNION { { [j \in 1..n |-> IF j = k THEN v ELSE f[j]] :
                v \in WsVariants, k \in 1..n, f \in [1..n -> WsFillers] } :
            n \in 1..WsMaxChunk }

InitWSize ==
    /\ PrIdle /\ ExIdle /\ VcIdle /\ ChIdle
    /\ \E dyn \in BOOLEAN : O = ChOptions("joint", FALSE, dyn, FALSE)
    /\ \E c \in WsChunks :
          /\ callArgs = c
          /\ var = c[1]
    /\ wSizeActual = O.wSize
    /\ callRes = <<>>
    /\ callPc = "call"

\* size_t const wSizeActual = getWSizeActual(vcfRecords, O)
ComputeWSize ==
    /\ callPc = "call"
    /\ callRes' = getWSizeActualOfText(callArgs, O)
    /\ wSizeActual' = IF callRes'.threw THEN wSizeActual ELSE callRes'.v
    /\ callPc' = "done"
    /\ UNCHANGED <<var, O, prVars, exVars, vcVars, chVars, callArgs>>

NextWSize == ComputeWSize

SpecWSize == InitWSize /\ [][NextWSize]_vars

\* |SVLEN| of a variant as its entries give it, 0 without an SVLEN entry
SvlenOfEntries(items) ==
    IF \E k \in 1..Len(items) : items[k] \notin WsOtherItems
    THEN Abs(CHOOSE n \in WsSvlens : \E k \in 1..Len(items) : items[k] = SvlenItem(n))
    ELSE 0

RECURSIVE ChunkMax(_, _)
ChunkMax(records, i) ==
    IF i > Len(records) THEN 0
    ELSE Max(Max(SvlenOfEntries(records[i].items), SeqMax(records[i].altLens)),
             ChunkMax(records, i + 1))

----------------------------------------------------------------------------
(* The scorers vaPreference and alignmentPreference on their own: SpecPref *)

PrefMaxIndel == 3     \* nI and nD of a read
PrefMaxLen == 3       \* length of the reference and of an alternate allele

\* the alignment scores around minAlignScore and around the point where the
\* difference to the best passes maxAlignBits
PrefScores(W) ==
    {NO_ALIGNMENT, MinAlignScore(W) - 1, MinAlignScore(W), MinAlignScore(W) + 1,
     MinAlignScore(W) + 2, MinAlignScore(W) + 1 + MaxAlignBits * LogScaleFactor,
     MinAlignScore(W) + 2 + MaxAlignBits * LogScaleFactor}

\* pref as the call finds it: untouched, or already raised by a scorer
PrefsBefore(n) ==
    { Zeros(n), [i \in 1..n |-> IF i = 1 THEN 0 ELSE LogScaleFactor + i] }

PrefVariants ==
    { [beginPos |-> VarBegin, refLen |-> r, altLens |-> a, nAlts |-> Len(a),
       info |-> NoInfo] :
        r \in 1..PrefMaxLen, a \in UNION { [1..n -> 1..PrefMaxLen] : n \in 1..2 } }

InitPref ==
    /\ PrIdle /\ ExIdle /\ VcIdle /\ ChIdle
    /\ var \in PrefVariants
    /\ wSizeActual \in {WSize, WSize + 4}
    /\ \/ /\ O = VcOptions("va")
          /\ wSizeActual = WSize
          /\ \E nD \in 0..PrefMaxIndel, nI \in 0..PrefMaxIndel,
                sc \in BOOLEAN, l \in BOOLEAN, r \in BOOLEAN,
                p \in PrefsBefore(var.nAlts + 1) :
                callArgs = [vai |-> [qname |-> "r1", nD |-> nD, nI |-> nI,
                                     alignS |-> [i \in 1..(var.nAlts + 1) |-> NO_ALIGNMENT],
                                     softClipped |-> sc, alignsLeft |-> l,
                                     alignsRight |-> r],
                            pref |-> p]
       \/ /\ \E mab \in {0, MaxAlignBits} :
                O = [VcOptions("ad") EXCEPT !.maxAlignBits = mab]
          /\ var.refLen = 1
          /\ \E s \in [1..(var.nAlts + 1) -> PrefScores(wSizeActual)],
                p \in PrefsBefore(var.nAlts + 1) :
                callArgs = [vai |-> [qname |-> "r1", nD |-> 0, nI |-> 0, alignS |-> s,
                                     softClipped |-> FALSE, alignsLeft |-> TRUE,
                                     alignsRight |-> TRUE],
                            pref |-> p]
    /\ callRes = <<>>
    /\ callPc = "call"

\* size_t bestI = vai.vaPreference(O, length(var.ref), altLens, prefs)
CallVaPreference ==
    /\ callPc = "call"
    /\ O.gtModel = "va"
    /\ callRes' = vaPreference(callArgs.vai, O, var.refLen, var.altLens, callArgs.pref)
    /\ callPc' = "done"
    /\ UNCHANGED <<inVars, prVars, exVars, vcVars, chVars, callArgs>>

\* size_t bestI = vai.alignmentPreference(wSizeActual, O, prefs)
CallAlignmentPreference ==
    /\ callPc = "call"
    /\ O.gtModel = "ad"
    /\ callRes' = alignmentPreference(callArgs.vai, wSizeActual, O, callArgs.pref)
    /\ callPc' = "done"
    /\ UNCHANGED <<inVars, prVars, exVars, vcVars, chVars, callArgs>>

NextPref == CallVaPreference \/ CallAlignmentPreference

SpecPref == InitPref /\ [][NextPref]_vars

\* the length change of allele i (0-based, 0 the reference)
DeltaLen(i) == IF i = 0 THEN 0 ELSE var.altLens[i] - var.refLen

\* |DeltaLen(i) - (nI - nD)| for the read of the call
SizeDistance(i) == Abs(DeltaLen(i) - (callArgs.vai.nI - callArgs.vai.nD))

\* C18: for a read that is not soft-clipped and aligns on both sides
\* vaPreference returns the allele i* of 0..nAlts with the least
\* |DeltaLen(i) - (nI - nD)|, the lowest such index on ties, adds overlapBits to
\* prefs[i] for every i # i* and leaves prefs[i*] alone; when one of the two
\* flags is false it returns no best and leaves prefs alone.
C18_VaPicksClosestLength ==
    (callPc = "done" /\ O.gtModel = "va" /\ ~callArgs.vai.softClipped) =>
        IF callArgs.vai.alignsLeft /\ callArgs.vai.alignsRight
        THEN /\ callRes.best \in 0..var.nAlts
             /\ \A i \in 0..var.nAlts : SizeDistance(callRes.best) <= SizeDistance(i)
             /\ \A i \in 0..(callRes.best - 1) : SizeDistance(callRes.best) < SizeDistance(i)
             /\ \A i \in 0..var.nAlts :
                   callRes.pref[i + 1] =
                       IF i = callRes.best THEN callArgs.pref[i + 1]
                       ELSE callArgs.pref[i + 1] + O.overlapBits * O.logScaleFactor
        ELSE /\ callRes.best = NO_BEST
             /\ callRes.pref = callArgs.pref

\* C18 witness: two alternates tie for the least distance and the lower one
\* is returned, on a read with more deleted than inserted bases and
\* alternates shorter than the reference
C18_Witness ==
    /\ callPc = "done"
    /\ O.gtModel = "va"
    /\ ~callArgs.vai.softClipped /\ callArgs.vai.alignsLeft /\ callArgs.vai.alignsRight
    /\ callArgs.vai.nD > callArgs.vai.nI
    /\ var.nAlts = 2
    /\ var.altLens[1] < var.refLen
    /\ callRes.best = 1
    /\ SizeDistance(1) = SizeDistance(2)
    /\ SizeDistance(0) > SizeDistance(1)

\* the amount added to prefs[i] (1-based), times logScaleFactor
AddedBits(i) == callRes.pref[i] - callArgs.pref[i]

\* C19: alignmentPreference reports no best and leaves prefs alone exactly
\* when the maximum score is NO_ALIGNMENT or <= floor(1.2 * wSizeActual);
\* otherwise it returns the lowest index of the maximum and adds to each
\* prefs[i] an amount d, 0 <= d <= maxAlignBits: 0 for the best allele,
\* min((maxScore - alignS[i]) / logScaleFactor, maxAlignBits) for a score
\* above the minimum, min((maxScore - minAlignScore) / logScaleFactor,
\* maxAlignBits) for a score that is NO_ALIGNMENT or <= the minimum.
C19_AdBitsBounded ==
    (callPc = "done" /\ O.gtModel = "ad") =>
        LET alignS   == callArgs.vai.alignS
            maxScore == SeqMax(alignS)
            floor12  == (12 * wSizeActual) \div 10
            noBest   == maxScore = NO_ALIGNMENT \/ maxScore <= floor12
            cap      == O.maxAlignBits * O.logScaleFactor
        IN  /\ callRes.best = NO_BEST <=> noBest
            /\ noBest => callRes.pref = callArgs.pref
            /\ ~noBest =>
                  /\ callRes.best \in 0..var.nAlts
                  /\ alignS[callRes.best + 1] = maxScore
                  /\ \A i \in 1..callRes.best : alignS[i] < maxScore
                  /\ AddedBits(callRes.best + 1) = 0
                  /\ \A i \in 1..Len(alignS) :
                        /\ 0 <= AddedBits(i)
                        /\ AddedBits(i) <= cap
                        /\ AddedBits(i) =
                              IF alignS[i] # NO_ALIGNMENT /\ alignS[i] > floor12
                              THEN Min(maxScore - alignS[i], cap)
                              ELSE Min(maxScore - floor12, cap)

\* C19 witness: the best allele is not the first, one allele has no
\* alignment and gets maxAlignBits, another gets less than that
C19_Witness ==
    /\ callPc = "done"
    /\ O.gtModel = "ad"
    /\ O.maxAlignBits = MaxAlignBits
    /\ var.nAlts = 2
    /\ callRes.best = 1
    /\ callArgs.vai.alignS[3] = NO_ALIGNMENT
    /\ AddedBits(3) = MaxAlignBits * LogScaleFactor
    /\ AddedBits(1) > 0
    /\ AddedBits(1) < MaxAlignBits * LogScaleFactor

----------------------------------------------------------------------------
(* The genotype loop of multiUpdateVC, checked under SpecVC *)

\* the genotypes (a1, a2), a2 <= a1, of the variant var (0-based alleles)
GenotypePairs == { pr \in (0..var.nAlts) \X (0..var.nAlts) : pr[2] <= pr[1] }

\* what the read just handled added to entry g (1-based) of the row of the
\* call under way, in units of 1/(2 * logScaleFactor)
AddedToVC(g) == vC'[mI + 1][g] - vC[mI + 1][g]

\* C20: for an informative read multiUpdateVC visits every genotype (a1, a2),
\* a2 <= a1, exactly once, at index a1(a1+1)/2 + a2, and adds to vC there, on
\* the normalised prefs: prefs[a1] when a1 = a2 or the two prefs are equal,
\* min(prefs[a1], prefs[a2]) + 1 when they are more than 2 apart, and their
\* mean when prefs[a1] > prefs[a2] and they are at most 2 apart.
C20_GenotypeContributions ==
    [][(UpdateVC /\ Informative(lastPrefs', O)) =>
          LET p   == Normalize(lastPrefs')
              one == O.logScaleFactor
          IN  /\ \A g \in 1..Len(vC[mI + 1]) :
                    Cardinality({ pr \in GenotypePairs :
                                    GenotypeIndex(pr[1], pr[2]) + 1 = g }) = 1
              /\ \A pr \in GenotypePairs :
                    LET x == p[pr[1] + 1]
                        y == p[pr[2] + 1]
                        d == AddedToVC(GenotypeIndex(pr[1], pr[2]) + 1)
                    IN  /\ (pr[1] = pr[2] \/ x = y) => d = 2 * x
                        /\ Abs(x - y) > 2 * one => d = 2 * (Min(x, y) + one)
                        /\ (x > y /\ x - y <= 2 * one) => d = x + y]_vars

\* C20 witness: the joint call has added the prefs of two informative reads to
\* its row, the second with one pair of alleles more than 2 apart and one pair
\* at most 2 apart with the higher allele index the less likely, the first
\* with two alleles equally likely
C20_Witness ==
    /\ vcPc = "update"
    /\ CurrentModel = "joint"
    /\ vcI = 2
    /\ var.nAlts = 2
    /\ Informative(lastPrefs, O)
    /\ \E pr \in GenotypePairs :
          Abs(lastPrefs[pr[1] + 1] - lastPrefs[pr[2] + 1]) > 2 * O.logScaleFactor
    /\ \E pr \in GenotypePairs :
          /\ lastPrefs[pr[1] + 1] > lastPrefs[pr[2] + 1]
          /\ lastPrefs[pr[1] + 1] - lastPrefs[pr[2] + 1] <= 2 * O.logScaleFactor
    /\ LET q == ReadPrefs(vais[1], var, wSizeActual, O, "joint").prefs
       IN  /\ Informative(q, O)
           /\ \E pr \in GenotypePairs : pr[1] # pr[2] /\ q[pr[1] + 1] = q[pr[2] + 1]
    /\ \E g \in 1..Len(vC[mI + 1]) : vC[mI + 1][g] > 0

----------------------------------------------------------------------------
(* The symmetry of the genotype loop, checked under SpecVC *)

\* the prefs p (1-based) with the values of the entries i and j exchanged
Exchanged(p, i, j) ==
    [k \in 1..Len(p) |-> IF k = i THEN p[j] ELSE IF k = j THEN p[i] ELSE p[k]]

\* C21: what an informative read adds to a heterozygous entry vC[g], a2 < a1,
\* depends only on the unordered pair of the two prefs values: with the two
\* values exchanged the amount added is the same.
C21_HeterozygousSymmetric ==
    [][(UpdateVC /\ Informative(lastPrefs', O)) =>
          LET p == Normalize(lastPrefs')
          IN  \A pr \in GenotypePairs :
                 pr[2] < pr[1] =>
                    AddedToVC(GenotypeIndex(pr[1], pr[2]) + 1) =
                       Contribution(Exchanged(p, pr[1] + 1, pr[2] + 1),
                                    pr[1] + 1, pr[2] + 1, O)]_vars

----------------------------------------------------------------------------
(* The joint model against ad and va, checked under SpecVC *)

\* the 1-based row of the joint call, 0 when the model in force runs none
JointRow ==
    IF O.gtModel = "joint" THEN 1 ELSE IF O.gtModel = "multi" THEN 3 ELSE 0

\* the rows a multiUpdateVC call of the single model gtm leaves for the
\* variant var and the reads vais
AloneRows(gtm) ==
    LET opt == [O EXCEPT !.gtModel = gtm]
        new == NewRows(var, opt)
    IN  multiUpdateVC(var, vais, 0, wSizeActual, opt, gtm,
                      [vC |-> new.vC[1], rI |-> new.AD[1], VAs |-> new.VA[1],
                       VA_qnames |-> new.VA_QNAMES])

\* C22: under joint the prefs of every read, before normalisation, are the
\* element-wise sum of what the ad scorer and the va scorer each add to a zero
\* vector, and after all reads the AD counts of joint are those of ad alone
\* and its VA counts those of va alone.
C22_JointIsAdThenVa ==
    /\ [][(UpdateVC /\ CurrentModel = "joint") =>
             LET vai == vais[vcI + 1]
                 zero == Zeros(var.nAlts + 1)
                 ad == alignmentPreference(vai, wSizeActual, O, zero).pref
                 va == vaPreference(vai, O, var.refLen, var.altLens, zero).pref
             IN  lastPrefs' = [i \in 1..(var.nAlts + 1) |-> ad[i] + va[i]]]_vars
    /\ []((JointRow # 0 /\ Processed(JointRow) = Len(vais)) =>
             /\ AD[JointRow] = AloneRows("ad").rI
             /\ VA[JointRow] = AloneRows("va").VAs)

\* C22 witness: the joint call of a multi run has handled two reads, the last
\* one scored by both scorers, and has counted a best allele in AD and in VA
C22_Witness ==
    /\ O.gtModel = "multi"
    /\ vcPc = "update"
    /\ mI = 2
    /\ vcI = 2
    /\ SumFirst(AD[3], var.nAlts + 1) >= 1
    /\ SumFirst(VA[3], var.nAlts + 1) >= 1
    /\ AD[3] = AD[1]
    /\ VA[3] = VA[2]
    /\ LET zero == Zeros(var.nAlts + 1)
       IN  /\ alignmentPreference(vais[2], wSizeActual, O, zero).pref # zero
           /\ vaPreference(vais[2], O, var.refLen, var.altLens, zero).pref # zero
           /\ lastPrefs # alignmentPreference(vais[2], wSizeActual, O, zero).pref
           /\ lastPrefs # vaPreference(vais[2], O, var.refLen, var.altLens, zero).pref

----------------------------------------------------------------------------
(* The evidence counted by examineBamAlignment, checked under SpecExamine *)

\* the reference position at which op k (1-based) of the read starts
OpStart(record, k) ==
    record.beginPos + SumCounts(SubSeq(record.cigar, 1, k - 1), {"M", "=", "X", "D"})

\* the sum over the I ops of at least minDelIns that stand at a reference
\* position inside the region
InsertedInRegion(record, v, opt) ==
    LET counted(k) ==
            IF /\ record.cigar[k].operation = "I"
               /\ record.cigar[k].count >= opt.minDelIns
               /\ RegionBeg(v, opt) <= OpStart(record, k)
               /\ OpStart(record, k) < RegionEnd(v, opt)
            THEN record.cigar[k].count ELSE 0
    IN  SumFirst([k \in 1..Len(record.cigar) |-> counted(k)], Len(record.cigar))

\* what the D op k may add to nD: nothing when it ends at or before regionBeg
\* or starts at or after regionEnd, its overshoot when it straddles regionBeg,
\* its count when it starts inside the region; nothing below minDelIns
DeletedByOp(record, v, opt, k) ==
    LET from == OpStart(record, k)
        to   == from + record.cigar[k].count
        part == IF record.cigar[k].operation # "D" THEN 0
                ELSE IF to <= RegionBeg(v, opt) \/ from >= RegionEnd(v, opt) THEN 0
                ELSE IF from < RegionBeg(v, opt) THEN to - RegionBeg(v, opt)
                ELSE record.cigar[k].count
    IN  IF part >= opt.minDelIns THEN part ELSE 0

DeletedInRegion(record, v, opt) ==
    SumFirst([k \in 1..Len(record.cigar) |-> DeletedByOp(record, v, opt, k)],
             Len(record.cigar))

\* C23: after examineBamAlignment only the ops inside the region count: nI is
\* the sum of the I ops of at least minDelIns at a reference position p with
\* regionBeg <= p < regionEnd; a D op that ends at or before regionBeg or
\* starts at or after regionEnd adds nothing to nD, a D op that straddles
\* regionBeg adds only its overshoot, and only if that is at least minDelIns;
\* so nI and nD are each 0 or at least minDelIns.
C23_EvidenceInsideRegion ==
    exPc = "done" =>
        /\ exVai.nI = InsertedInRegion(exRead, var, O)
        /\ exVai.nD = DeletedInRegion(exRead, var, O)
        /\ exVai.nI = 0 \/ exVai.nI >= O.minDelIns
        /\ exVai.nD = 0 \/ exVai.nD >= O.minDelIns


\* C24: after examineBamAlignment a read flagged softClipped never has
\* alignsLeft and alignsRight both true: in left-breakpoint mode it has
\* alignsRight = false, in right-breakpoint mode alignsLeft = false.
C24_SoftClippedNotSpanning ==
    (exPc = "done" /\ exVai.softClipped) =>
        /\ ~(exVai.alignsLeft /\ exVai.alignsRight)
        /\ IF O.genotypeRightBreakpoint THEN ~exVai.alignsLeft ELSE ~exVai.alignsRight

\* C24 witness: a read that begins left of the region and ends in a long
\* soft clip inside it, in left-breakpoint mode
C24_Witness ==
    /\ exPc = "done"
    /\ ~O.genotypeRightBreakpoint
    /\ exVai.softClipped
    /\ exVai.alignsLeft
    /\ ~exVai.alignsRight
    /\ Len(exRead.cigar) >= 2

----------------------------------------------------------------------------
(* The alignment loop of LRprocessReads, the width of its scores: SpecAlign *)

AlMaxReads == 3       \* candidate reads of the variant

INT16_MAX == 32767    \* std::numeric_limits<int16_t>::max()

\* lengths that fit in 16 bits and lengths that do not
AlLengths == {2 * WSize, INT16_MAX, INT16_MAX + 1, INT16_MAX + 2 * WSize}

\* the score type of the localAlignmentScore call for one read
ScoreBits(refSeqLen, seqToAlignLen) ==
    IF refSeqLen > INT16_MAX /\ seqToAlignLen > INT16_MAX THEN 32 ELSE 16

InitAlign ==
    /\ PrIdle /\ ExIdle /\ VcIdle /\ ChIdle
    /\ var \in VcVariants
    /\ O = VcOptions("joint")
    /\ wSizeActual = WSize
    /\ \E r \in AlLengths, n \in 1..AlMaxReads :
          \E h \in [1..n -> AlLengths] :
             callArgs = [refSeq |-> r, seqToAlign |-> h]
    /\ callRes = <<>>
    /\ callPc = "align"

\* one iteration of the loop over overlappingBars: the read is aligned to the
\* allele windows with 32-bit or with 16-bit scores
AlignRead ==
    /\ callPc = "align"
    /\ Len(callRes) < Len(callArgs.seqToAlign)
    /\ callRes' = Append(callRes,
                         ScoreBits(callArgs.refSeq, callArgs.seqToAlign[Len(callRes) + 1]))
    /\ UNCHANGED <<inVars, prVars, exVars, vcVars, chVars, callArgs, callPc>>

\* the loop is over
AlignDone ==
    /\ callPc = "align"
    /\ Len(callRes) = Len(callArgs.seqToAlign)
    /\ callPc' = "done"
    /\ UNCHANGED <<inVars, prVars, exVars, vcVars, chVars, callArgs, callRes>>

NextAlign == AlignRead \/ AlignDone

SpecAlign == InitAlign /\ [][NextAlign]_vars

\* C25: 16-bit scores are used only when the reference window and the read
\* both have a length of at most 32767; when either is longer, 32-bit scores
\* are used.
C25_SixteenBitsOnlyIfBothFit ==
    \A i \in 1..Len(callRes) :
        callRes[i] = 16 <=>
            (callArgs.refSeq <= 32767 /\ callArgs.seqToAlign[i] <= 32767)

----------------------------------------------------------------------------
(* The va model on a biallelic variant, from the reads to the string: SpecVa *)

VaMaxReads == 2       \* candidate reads of the variant
BigOverlapBits == 45  \* an overlapBits that takes PL past 255 with two reads

\* an insertion and two deletions
VaVariants ==
    { [beginPos |-> VarBegin, refLen |-> r, altLens |-> <<a>>, nAlts |-> 1,
       info |-> NoInfo] : r \in {1, 3}, a \in {1, 3} } \ 
    { [beginPos |-> VarBegin, refLen |-> 1, altLens |-> <<1>>, nAlts |-> 1,
       info |-> NoInfo] }

\* reads with no, a short and a long insertion or deletion, spanning the
\* region, not reaching its right end, or soft-clipped
VaReads ==
    { [qname |-> "", nD |-> d[1], nI |-> d[2],
       alignS |-> <<NO_ALIGNMENT, NO_ALIGNMENT>>,
       softClipped |-> f[1], alignsLeft |-> TRUE, alignsRight |-> f[2]] :
         d \in {<<0, 0>>, <<0, 1>>, <<0, 2>>, <<0, 3>>, <<2, 0>>},
         f \in {<<FALSE, TRUE>>, <<FALSE, FALSE>>, <<TRUE, FALSE>>} }

InitVa ==
    /\ PrIdle /\ ExIdle /\ ChIdle /\ FnIdle
    /\ wSizeActual = WSize
    /\ var \in VaVariants
    /\ \E ob \in {OverlapBits, BigOverlapBits} :
          O = [VcOptions("va") EXCEPT !.overlapBits = ob]
    /\ \E n \in 0..VaMaxReads :
          \E list \in [1..n -> VaReads] :
             vais = [k \in 1..n |-> [list[k] EXCEPT !.qname = ReadName(k)]]
    /\ vC = NewRows(var, O).vC
    /\ AD = NewRows(var, O).AD
    /\ VA = NewRows(var, O).VA
    /\ VA_QNAMES = NewRows(var, O).VA_QNAMES
    /\ mI = 0
    /\ vcI = 0
    /\ vcPc = "update"
    /\ genotypeInfos = <<>>
    /\ lastPrefs = <<>>

SpecVa == InitVa /\ [][NextVC]_vars

\* read k spans the region on both sides and is not soft-clipped
Spanning(k) == vais[k].alignsLeft /\ vais[k].alignsRight /\ ~vais[k].softClipped

\* read k has nI - nD strictly closer to altLen - refLen than to 0
CloserToAlt(k) ==
    LET insDel == vais[k].nI - vais[k].nD
    IN  Abs((var.altLens[1] - var.refLen) - insDel) < Abs(insDel)

\* C26: biallelic variant, va model, overlapBits > 2, n >= 1 reads that all
\* span the region, are not soft-clipped and have nI - nD strictly closer to
\* altLen - refLen than to 0: VA[1] = n, VA[0] = 0, the genotype printed is
\* 1/1 and PL[0] = min(int(10 * n * overlapBits / LG10), 255); when all have
\* nI - nD at least as close to 0, the genotype printed is 0/0.
C26_UnanimousReads ==
    (vcPc = "done" /\ Len(vais) >= 1 /\ O.overlapBits > 2
       /\ \A k \in 1..Len(vais) : Spanning(k)) =>
        /\ (\A k \in 1..Len(vais) : CloserToAlt(k)) =>
              /\ genotypeInfos.VA[2] = Len(vais)
              /\ genotypeInfos.VA[1] = 0
              /\ genotypeInfos.GT = <<1, 1>>
              /\ genotypeInfos.PL[1] =
                    Min((10000 * Len(vais) * O.overlapBits) \div 3322, 255)
        /\ (\A k \in 1..Len(vais) : ~CloserToAlt(k)) =>
              genotypeInfos.GT = <<0, 0>>

\* C26 witness: two spanning reads that both carry the deletion, with an
\* overlapBits that takes PL[0] to the cut at 255
C26_Witness ==
    /\ vcPc = "done"
    /\ Len(vais) = 2
    /\ \A k \in 1..2 : Spanning(k) /\ CloserToAlt(k)
    /\ var.refLen > var.altLens[1]
    /\ O.overlapBits = BigOverlapBits
    /\ genotypeInfos.GT = <<1, 1>>
    /\ genotypeInfos.PL[1] = 255

----------------------------------------------------------------------------
(* The start of the crop against the CIGAR, checked under SpecCrop *)

RECURSIVE ReadBasesBefore(_, _, _, _, _, _)
\* the read bases the ops from op i on consume before reference position
\* searchPos, the read being at refPos and readPos; with atBoundary the bases
\* inserted or clipped between searchPos - 1 and searchPos are not counted
ReadBasesBefore(cigar, i, refPos, readPos, searchPos, atBoundary) ==
    IF i > Len(cigar) \/ (atBoundary /\ refPos = searchPos) THEN readPos
    ELSE LET c == cigar[i]
         IN  IF c.operation \in {"M", "=", "X"}
             THEN IF refPos + c.count > searchPos
                  THEN readPos + (searchPos - refPos)
                  ELSE ReadBasesBefore(cigar, i + 1, refPos + c.count,
                                       readPos + c.count, searchPos, atBoundary)
             ELSE IF c.operation = "D"
             THEN IF refPos + c.count > searchPos
                  THEN readPos
                  ELSE ReadBasesBefore(cigar, i + 1, refPos + c.count, readPos,
                                       searchPos, atBoundary)
             ELSE IF c.operation \in {"I", "S"}
             THEN ReadBasesBefore(cigar, i + 1, refPos, readPos + c.count,
                                  searchPos, atBoundary)
             ELSE ReadBasesBefore(cigar, i + 1, refPos, readPos, searchPos,
                                  atBoundary)

\* the alignment of the read covers searchPos
CoversSearchPos(record, searchPos) ==
    record.beginPos <= searchPos /\ searchPos < RefEnd(record)

\* C27: in left-breakpoint mode, for a read whose alignment covers
\* searchPos = max(B - W, 0), rBeg before the clamps is the read coordinate
\* the CIGAR maps to reference position searchPos, the number of read bases
\* consumed before it, whichever op (M, =, X or D) carries alignPos across
\* searchPos; bases inserted or clipped right at searchPos may be counted or
\* not.
C27_CropStartsAtSearchPos ==
    (/\ callPc = "done"
     /\ ~O.genotypeRightBreakpoint
     /\ CoversSearchPos(callArgs.bar, CropSearchPos(var, wSizeActual, O))) =>
        LET bar == callArgs.bar
            searchPos == CropSearchPos(var, wSizeActual, O)
            rBeg == CropRaw(bar, var, wSizeActual, O).rBeg
        IN  /\ ReadBasesBefore(bar.cigar, 1, bar.beginPos, 0, searchPos, TRUE) <= rBeg
            /\ rBeg <= ReadBasesBefore(bar.cigar, 1, bar.beginPos, 0, searchPos, FALSE)

====
